---- MODULE Spec2Model ----
(***************************************************************************)
(* A model of the lakehouse pipeline: its two Lambda functions, and below  *)
(* them the report renderer (generate_test_report.py), concurrent          *)
(* invocations of the two functions, and the Airflow DAG.                  *)
(*                                                                         *)
(*   - the model executor (dbt_athena_executor.py): lambda_handler,        *)
(*     run_layer, run_staging_model / run_marts_model and the poll loop    *)
(*     of execute_athena_query;                                            *)
(*   - the test executor (dbt_test_executor.py): lambda_handler,           *)
(*     run_tests, run_test, get_query_result_count, record_to_elementary   *)
(*     and its own execute_athena_query.                                   *)
(*                                                                         *)
(* Each handler is one sequential process.  It is cut into steps at its    *)
(* calls of the Athena client (start_query_execution, get_query_execution, *)
(* get_query_results): what such a call answers is the engine's choice,    *)
(* drawn with \E from the answers the API can give, an exception of the    *)
(* client included.  Variables of the model executor start with m_, those  *)
(* of the test executor with t_ (both files define execute_athena_query,   *)
(* lambda_handler and max_attempts).                                       *)
(***************************************************************************)
EXTENDS Integers, Sequences, FiniteSets, TLC

VARIABLES
    m_pc,          \* position of the model executor's handler
    m_action,      \* event['action'] of the invocation
    m_layer,       \* event['layer'] of the invocation
    m_idx,         \* position of run_layer's loop in MODELS[layer]
    m_stmt,        \* the statement execute_athena_query is working on: DROP or CREATE
    m_attempts,    \* execute_athena_query's attempts counter
    m_polls,       \* get_query_execution calls made for the current query
    m_athena,      \* the start_query_execution calls made, in order, each with the engine's state of its query
    m_results,     \* run_layer's results list
    m_response,    \* what lambda_handler returned
    t_pc,          \* position of the test executor's handler
    t_action,      \* event['action'] of the invocation
    t_layer,       \* event['layer'] of the invocation
    t_idx,         \* position of run_tests' loops in the tests to run
    t_stmt,        \* the statement execute_athena_query is working on: TEST or INSERT
    t_attempts,    \* execute_athena_query's attempts counter: the polls that answered a state that is not terminal
    t_query,       \* the engine's side of the current query: its state and its result rows
    t_submitted,   \* the start_query_execution calls made, in order
    t_tests,       \* the test definitions run_tests reads from the table TESTS
    all_results,   \* run_tests' all_results list
    elementary_result, \* what record_to_elementary returned
    t_response,    \* what lambda_handler returned
    r_pc,          \* position of generate_test_report.py
    r_q,           \* which of generate_report's queries run_query is working on
    r_out,         \* what the run_query calls made so far returned
    r_stats,       \* generate_report's summary statistics
    table,         \* the rows of elementary_test_results
    u_pc,          \* position of each concurrent invocation of the test executor
    u_layer,       \* its event['layer']
    u_invocation_id, \* run_tests' invocation_id
    u_results,     \* run_tests' all_results
    u_insert,      \* the VALUES tuples of its INSERT
    uuid_drawn,    \* how many values uuid.uuid4() has returned
    catalog,       \* the engine's catalog: for each object, whether it exists and who created it
    c_pc,          \* position of each concurrent invocation of the model executor
    c_layer,       \* its event['layer']
    c_idx,         \* position of run_layer's loop in MODELS[layer]
    c_stmt,        \* which statement of the model it is at
    c_query,       \* the engine's side of its current query
    c_results,     \* run_layer's results
    c_response,    \* the status lambda_handler returned
    c_abandoned,   \* the queries whose poll loop timed out: the engine still holds them
    d_state,       \* the state of each task instance of the DAG run
    d_tries,       \* how many times each task instance was started
    g_pc,          \* position of a dataset generator script
    g_script,      \* which of the three generator scripts runs
    g_num_users,   \* generate_users' num_users
    g_num_events,  \* generate_events' num_events
    g_users,       \* what generate_users returned
    g_events       \* generate_events' events list

m_vars == <<m_pc, m_action, m_layer, m_idx, m_stmt, m_attempts, m_polls, m_athena, m_results, m_response>>

t_vars == <<t_pc, t_action, t_layer, t_idx, t_stmt, t_attempts, t_query, t_submitted,
            t_tests, all_results, elementary_result, t_response>>

r_vars == <<r_pc, r_q, r_out, r_stats, table>>

u_vars == <<u_pc, u_layer, u_invocation_id, u_results, u_insert, uuid_drawn>>

c_vars == <<catalog, c_pc, c_layer, c_idx, c_stmt, c_query, c_results, c_response, c_abandoned>>

d_vars == <<d_state, d_tries>>

g_vars == <<g_pc, g_script, g_num_users, g_num_events, g_users, g_events>>

vars == <<m_vars, t_vars, r_vars, u_vars, c_vars, d_vars, g_vars>>

(***************************************************************************)
(* Values shared by both executors.                                        *)
(***************************************************************************)

\* Python's None.
None == "None"

\* A layer name that is a key of neither MODELS nor TESTS (the DAG has a
\* task of that name, the tables do not).
UnknownLayer == "intermediate"

\* event['layer'] as a caller may send it.
LayerInputs == {None, "staging", "marts", UnknownLayer}

\* event['action'] as the handler reads it: event.get('action', 'run_layer')
\* makes a missing key 'run_layer'.
ModelActionInputs == {"run_layer", "compile"}

\* The StateChangeReason the engine gives for a FAILED query (None: the key is absent).
Reasons == {None, "SYNTAX_ERROR"}

\* What one get_query_execution call can answer: the query's state (with the
\* reason, for FAILED), or an exception of the client (API_ERROR).
PollAnswers ==
    {[state |-> s, reason |-> None] : s \in {"RUNNING", "SUCCEEDED", "CANCELLED", "API_ERROR"}}
    \cup {[state |-> "FAILED", reason |-> r] : r \in Reasons}

Last(s) == s[Len(s)]

(***************************************************************************)
(* The model executor: dbt_athena_executor.py                              *)
(***************************************************************************)

\* MODELS: the model names of each layer, in the table's insertion order.
MODELS ==
    [staging |-> <<"stg_raw_events", "stg_raw_users">>,
     marts   |-> <<"dim_users", "fct_events">>]

\* layer in MODELS
InModels(layer) == layer \in DOMAIN MODELS

\* max_attempts of the model executor's execute_athena_query
max_attempts == 60

\* The loop's bound off by one: while attempts <= max_attempts.
LoopContinuesOffByOne(attempts) == attempts <= max_attempts

\* while attempts < max_attempts
LoopContinues(attempts) == attempts < max_attempts

\* The loop leaving on the first answer, as with wait=False.
IsTerminalOrRunning(state) == state \in {"RUNNING", "SUCCEEDED", "FAILED", "CANCELLED"}

\* state in ['SUCCEEDED', 'FAILED', 'CANCELLED']
IsTerminal(state) == state \in {"SUCCEEDED", "FAILED", "CANCELLED"}

\* if state == 'FAILED': raise
RaisesOnState(state) == state = "FAILED"

\* No exception: the response has no 'error' key.
NoError == [kind |-> None, reason |-> None]

\* Exception(f"Query failed: {reason}"), reason defaulting to 'Unknown'
QueryFailed(reason) ==
    [kind |-> "Query failed", reason |-> IF reason = None THEN "Unknown" ELSE reason]

\* Exception(f"Query timed out after {max_attempts * 2} seconds")
QueryTimedOut == [kind |-> "Query timed out", reason |-> None]

\* An exception raised by the boto3 client itself.
ClientError == [kind |-> "ClientError", reason |-> None]

\* ValueError(f"Unknown layer: {layer}")
UnknownLayerError == [kind |-> "Unknown layer", reason |-> None]

\* ValueError("layer is required for run_layer action")
LayerRequiredError == [kind |-> "layer is required", reason |-> None]

\* ValueError(f"Unknown action: {action}")
UnknownActionError == [kind |-> "Unknown action", reason |-> None]

\* An except branch that answers as the normal return does.
M_FailureAnswers200(e) ==
    [statusCode |-> 200, status |-> "SUCCESS", error |-> e, results |-> <<>>]

\* The handler's except branch: statusCode 500, status FAILED.
M_Failure(e) ==
    [statusCode |-> 500, status |-> "FAILED", error |-> e, results |-> <<>>]

\* The handler's normal return: statusCode 200, status SUCCESS.
M_Success(results) ==
    [statusCode |-> 200, status |-> "SUCCESS", error |-> NoError, results |-> results]

M_Init ==
    /\ m_pc = "idle"
    /\ m_action = None
    /\ m_layer = None
    /\ m_idx = 0
    /\ m_stmt = None
    /\ m_attempts = 0
    /\ m_polls = 0
    /\ m_athena = <<>>
    /\ m_results = <<>>
    /\ m_response = None

\* The model the loop of run_layer is at.
M_Model == MODELS[m_layer][m_idx]

\* lambda_handler up to run_layer's first statement: the checks of action
\* and layer, then the first model's DROP is next.
M_Invoke(action, layer) ==
    /\ m_pc = "idle"
    /\ m_action' = action
    /\ m_layer' = layer
    /\ IF action # "run_layer"
       THEN /\ m_response' = M_Failure(UnknownActionError)
            /\ m_pc' = "returned"
            /\ UNCHANGED <<m_idx, m_stmt>>
       ELSE IF layer = None
       THEN /\ m_response' = M_Failure(LayerRequiredError)
            /\ m_pc' = "returned"
            /\ UNCHANGED <<m_idx, m_stmt>>
       ELSE IF ~InModels(layer)
       THEN /\ m_response' = M_Failure(UnknownLayerError)
            /\ m_pc' = "returned"
            /\ UNCHANGED <<m_idx, m_stmt>>
       ELSE /\ m_idx' = 1
            /\ m_stmt' = "DROP"
            /\ m_pc' = "start"
            /\ UNCHANGED m_response
    /\ UNCHANGED <<m_attempts, m_polls, m_athena, m_results>>

\* The DROP without its try/except: the exception reaches the handler.
M_DropRaisedPropagates(e) ==
    /\ m_response' = M_Failure(e)
    /\ m_pc' = "returned"
    /\ UNCHANGED <<m_idx, m_stmt, m_results>>

\* run_staging_model / run_marts_model: an exception of the DROP is printed
\* and the CREATE is next.
M_DropRaised(e) ==
    /\ m_stmt' = "CREATE"
    /\ m_pc' = "start"
    /\ UNCHANGED <<m_idx, m_results, m_response>>

\* A CREATE that is tried again when it raised.
M_CreateRaisedRetries(e) ==
    /\ m_pc' = "start"
    /\ UNCHANGED <<m_idx, m_stmt, m_results, m_response>>

\* An exception of the CREATE leaves run_layer and reaches the handler's except.
M_CreateRaised(e) ==
    /\ m_response' = M_Failure(e)
    /\ m_pc' = "returned"
    /\ UNCHANGED <<m_idx, m_stmt, m_results>>

\* execute_athena_query raised e.
M_Raise(e) ==
    IF m_stmt = "DROP" THEN M_DropRaised(e) ELSE M_CreateRaised(e)

\* The DROP returned: its result is dropped and the CREATE is next.
M_DropReturned ==
    /\ m_stmt' = "CREATE"
    /\ m_pc' = "start"
    /\ UNCHANGED <<m_idx, m_results, m_response>>

\* A record that carries the identifier of the model's DROP.
M_RecordOfDrop(query_id, state) ==
    [model |-> MODELS[m_layer][m_idx], layer |-> m_layer,
     QueryExecutionId |-> query_id - 1, Status |-> state]

\* The record run_layer appends for a model.
M_Record(query_id, state) ==
    [model |-> M_Model, layer |-> m_layer, QueryExecutionId |-> query_id, Status |-> state]

\* Whether run_layer's loop has another model after position idx.
M_HasNext(idx) == idx < Len(MODELS[m_layer])

\* The CREATE returned: run_layer appends the record and goes to the next
\* model, or returns to the handler, which answers 200.
M_CreateReturned(query_id, state) ==
    LET results == Append(m_results, M_Record(query_id, state)) IN
    /\ m_results' = results
    /\ IF M_HasNext(m_idx)
       THEN /\ m_idx' = m_idx + 1
            /\ m_stmt' = "DROP"
            /\ m_pc' = "start"
            /\ UNCHANGED m_response
       ELSE /\ m_response' = M_Success(results)
            /\ m_pc' = "returned"
            /\ UNCHANGED <<m_idx, m_stmt>>

\* execute_athena_query returned {'QueryExecutionId', 'Status'}.
M_Return(query_id, state) ==
    IF m_stmt = "DROP" THEN M_DropReturned ELSE M_CreateReturned(query_id, state)

\* execute_athena_query up to its loop: start_query_execution starts the
\* query, or raises (REJECTED: no query exists).
M_Start ==
    /\ m_pc = "start"
    /\ \E started \in BOOLEAN :
        /\ m_athena' = Append(m_athena,
               [stmt |-> m_stmt, model |-> M_Model, reason |-> None,
                state |-> IF started THEN "RUNNING" ELSE "REJECTED"])
        /\ m_attempts' = 0
        /\ m_polls' = 0
        /\ IF started
           THEN /\ m_pc' = "poll"
                /\ UNCHANGED <<m_idx, m_stmt, m_results, m_response>>
           ELSE M_Raise(ClientError)
    /\ UNCHANGED <<m_action, m_layer>>

\* One turn of the poll loop: get_query_execution, then return, raise or
\* sleep and count the attempt.
M_Poll ==
    /\ m_pc = "poll"
    /\ LoopContinues(m_attempts)
    /\ m_polls' = m_polls + 1
    /\ \E answer \in PollAnswers :
        IF answer.state = "API_ERROR"
        THEN /\ M_Raise(ClientError)
             /\ UNCHANGED <<m_athena, m_attempts>>
        ELSE /\ m_athena' = [m_athena EXCEPT ![Len(m_athena)].state = answer.state,
                                             ![Len(m_athena)].reason = answer.reason]
             /\ IF IsTerminal(answer.state)
                THEN /\ IF RaisesOnState(answer.state)
                        THEN M_Raise(QueryFailed(answer.reason))
                        ELSE M_Return(Len(m_athena), answer.state)
                     /\ UNCHANGED m_attempts
                ELSE /\ m_attempts' = m_attempts + 1
                     /\ UNCHANGED <<m_pc, m_idx, m_stmt, m_results, m_response>>
    /\ UNCHANGED <<m_action, m_layer>>

\* The loop ended without a terminal state: the timeout is raised.
M_Timeout ==
    /\ m_pc = "poll"
    /\ ~LoopContinues(m_attempts)
    /\ M_Raise(QueryTimedOut)
    /\ UNCHANGED <<m_action, m_layer, m_attempts, m_polls, m_athena>>

(***************************************************************************)
(* The test executor: dbt_test_executor.py                                 *)
(***************************************************************************)

\* How many test definitions of each layer a run is followed through when
\* the engine's answers are unrestricted (the first ones of the layer's list).
MaxTests == 2

\* len(TESTS['staging'])
NumStagingTests == 10

\* len(TESTS['marts'])
NumMartsTests == 12

Min(a, b) == IF a < b THEN a ELSE b

Max(a, b) == IF a > b THEN a ELSE b

\* TESTS: the test definitions of each layer, in list order; a definition is
\* named by its layer and its place in the list.
TESTS ==
    [staging |-> [n \in 1..NumStagingTests |-> [layer |-> "staging", n |-> n]],
     marts   |-> [n \in 1..NumMartsTests |-> [layer |-> "marts", n |-> n]]]

\* The first MaxTests definitions of each layer of TESTS.
FirstTests ==
    [layer \in DOMAIN TESTS |->
        SubSeq(TESTS[layer], 1, Min(Len(TESTS[layer]), MaxTests))]

\* list(TESTS.keys())
TestLayers == <<"staging", "marts">>

\* test_layer in TESTS
InTests(layer) == layer \in DOMAIN TESTS

\* layers_to_run = [layer] if layer else list(TESTS.keys())
LayersToRun(layer) == IF layer = None THEN TestLayers ELSE <<layer>>

\* The test definitions run_tests' two loops visit, in order: an unknown
\* layer is skipped (continue).
RECURSIVE TestsToRun(_)
TestsToRun(layers) ==
    IF layers = <<>> THEN <<>>
    ELSE (IF InTests(Head(layers)) THEN t_tests[Head(layers)] ELSE <<>>)
         \o TestsToRun(Tail(layers))

\* The rows a predicate's result can hold (the violating rows).
RowCounts == {0, 3, 10}

\* What one get_query_execution call can answer in the test executor, which
\* reads no reason: the query's state, with the rows of its result when it is
\* a predicate that SUCCEEDED, or an exception of the client (API_ERROR).
T_PollAnswers(stmt) ==
    {[state |-> s, rows |-> 0] : s \in {"RUNNING", "FAILED", "CANCELLED", "API_ERROR"}}
    \cup {[state |-> "SUCCEEDED", rows |-> k] : k \in IF stmt = "TEST" THEN RowCounts ELSE {0}}

\* event['action'] as the handler reads it: event.get('action', 'run_tests')
\* makes a missing key 'run_tests'.
TestActionInputs == {"run_tests", "compile"}

\* max_attempts of the test executor's execute_athena_query
t_max_attempts == 60

\* while attempts < max_attempts
T_LoopContinues(attempts) == attempts < t_max_attempts

\* state in ['SUCCEEDED', 'FAILED', 'CANCELLED']: the result is returned,
\* whatever the state
T_IsTerminal(state) == state \in {"SUCCEEDED", "FAILED", "CANCELLED"}

\* MaxResults of get_query_results
MaxResults == 10

\* len(rows) of the first page of a result of k data rows: the header row
\* and the data rows, MaxResults at most.
FirstPage(k) == Min(k + 1, MaxResults)

\* get_query_result_count: the first page's rows less the header; 0 when
\* get_query_results raises.
get_query_result_count(k, fetched) ==
    IF fetched THEN Max(0, FirstPage(k) - 1) ELSE 0

\* A status that tolerates three violating rows.
StatusOfFailuresOverThree(failures) == IF failures <= 3 THEN "pass" ELSE "fail"

\* status = 'pass' if failures == 0 else 'fail'
StatusOfFailures(failures) == IF failures = 0 THEN "pass" ELSE "fail"

\* run_test's record for a query that reached a terminal state.
ResultOfState(test, state, query_id, failures) ==
    IF state = "SUCCEEDED"
    THEN [test |-> test, status |-> StatusOfFailures(failures), failures |-> failures,
          query_id |-> query_id, error |-> None]
    ELSE [test |-> test, status |-> "error", failures |-> 0,
          query_id |-> query_id, error |-> None]

\* run_test's record when execute_athena_query raised e: no query_id key.
ResultOfException(test, e) ==
    [test |-> test, status |-> "error", failures |-> 0, query_id |-> None, error |-> "str(e)"]

\* record_to_elementary's try branch: whatever execute_athena_query returns
\* counts as recorded.
Recorded(query_id, state) == [status |-> "recorded", query_id |-> query_id]

\* record_to_elementary's except branch.
RecordingError(e) == [status |-> "error", query_id |-> None]

\* record_to_elementary with no results.
NoResults == [status |-> "no_results", query_id |-> None]

\* sum(1 for r in all_results if r['status'] == status)
CountStatus(results, status) ==
    Cardinality({i \in 1..Len(results) : results[i].status = status})

\* A summary that counts no error.
SummaryWithoutErrors(results) ==
    [total |-> Len(results), passed |-> CountStatus(results, "pass"),
     failed |-> CountStatus(results, "fail"), errors |-> 0]

\* run_tests' summary as the handler reads it.
Summary(results) ==
    [total |-> Len(results), passed |-> CountStatus(results, "pass"),
     failed |-> CountStatus(results, "fail"), errors |-> CountStatus(results, "error")]

\* The two checks of the overall status in the other order.
OverallStatusFailedFirst(summary) ==
    IF summary.failed > 0 THEN "TESTS_FAILED"
    ELSE IF summary.errors > 0 THEN "ERROR"
    ELSE "SUCCESS"

\* The handler's overall status.
OverallStatus(summary) ==
    IF summary.errors > 0 THEN "ERROR"
    ELSE IF summary.failed > 0 THEN "TESTS_FAILED"
    ELSE "SUCCESS"

\* The handler's status code.
StatusCode(summary) == IF summary.errors > 0 THEN 500 ELSE 200

\* The handler's return after run_tests returned.
T_Response(results, elementary) ==
    [statusCode |-> StatusCode(Summary(results)), status |-> OverallStatus(Summary(results)),
     summary |-> Summary(results), elementary |-> elementary, error |-> NoError]

\* The handler's except branch.
T_Failure(e) ==
    [statusCode |-> 500, status |-> "FAILED", summary |-> None, elementary |-> None,
     error |-> e]

T_Init ==
    /\ t_tests = FirstTests
    /\ t_pc = "idle"
    /\ t_action = None
    /\ t_layer = None
    /\ t_idx = 0
    /\ t_stmt = None
    /\ t_attempts = 0
    /\ t_query = None
    /\ t_submitted = <<>>
    /\ all_results = <<>>
    /\ elementary_result = None
    /\ t_response = None

\* The tests of this run, and the one the loop is at.
T_Plan == TestsToRun(LayersToRun(t_layer))

T_Test == T_Plan[t_idx]

\* What start_query_execution is given: a test's predicate, or the INSERT
\* with one row per result record.
T_Statement ==
    IF t_stmt = "TEST"
    THEN [stmt |-> "TEST", test |-> T_Test, rows |-> <<>>]
    ELSE [stmt |-> "INSERT", test |-> None, rows |-> all_results]

\* The rest of run_tests after record_to_elementary, and the handler's return.
T_Finish(results, elementary) ==
    /\ elementary_result' = elementary
    /\ t_response' = T_Response(results, elementary)
    /\ t_pc' = "returned"

\* record_to_elementary(results): nothing to insert, or the INSERT is next.
T_Record(results) ==
    IF results = <<>>
    THEN /\ T_Finish(results, NoResults)
         /\ UNCHANGED <<t_idx, t_stmt>>
    ELSE /\ t_stmt' = "INSERT"
         /\ t_pc' = "start"
         /\ UNCHANGED <<t_idx, elementary_result, t_response>>

\* lambda_handler up to the first statement of run_tests: the check of the
\* action, then the first test of the layers to run; with no test to run,
\* run_tests and the handler return at once.
T_Invoke(action, layer) ==
    /\ t_pc = "idle"
    /\ t_action' = action
    /\ t_layer' = layer
    /\ IF action # "run_tests"
       THEN /\ t_response' = T_Failure(UnknownActionError)
            /\ t_pc' = "returned"
            /\ UNCHANGED <<t_idx, t_stmt, elementary_result>>
       ELSE IF TestsToRun(LayersToRun(layer)) = <<>>
       THEN T_Record(<<>>)
       ELSE /\ t_idx' = 1
            /\ t_stmt' = "TEST"
            /\ t_pc' = "start"
            /\ UNCHANGED <<elementary_result, t_response>>
    /\ UNCHANGED <<t_attempts, t_query, t_submitted, t_tests, all_results>>

\* record_to_elementary called inside the loop, after the first test.
T_TestDoneRecordsAtOnce(record) ==
    /\ all_results' = Append(all_results, record)
    /\ t_stmt' = "INSERT"
    /\ t_pc' = "start"
    /\ UNCHANGED <<t_idx, elementary_result, t_response>>

\* run_tests after run_test returned record: append it, then the next test
\* or record_to_elementary.
T_TestDone(record) ==
    LET results == Append(all_results, record) IN
    /\ all_results' = results
    /\ IF t_idx < Len(T_Plan)
       THEN /\ t_idx' = t_idx + 1
            /\ t_pc' = "start"
            /\ UNCHANGED <<t_stmt, elementary_result, t_response>>
       ELSE T_Record(results)

\* run_test and record_to_elementary without their try/except: the
\* exception leaves run_tests and reaches the handler.
T_RaisePropagates(e) ==
    /\ t_response' = T_Failure(e)
    /\ t_pc' = "returned"
    /\ UNCHANGED <<t_idx, t_stmt, all_results, elementary_result>>

\* execute_athena_query raised e: run_test's except, or record_to_elementary's.
T_Raise(e) ==
    IF t_stmt = "TEST"
    THEN T_TestDone(ResultOfException(T_Test, e))
    ELSE /\ T_Finish(all_results, RecordingError(e))
         /\ UNCHANGED <<t_idx, t_stmt, all_results>>

\* execute_athena_query returned: run_test fetches the count of a SUCCEEDED
\* predicate and classifies; record_to_elementary reports 'recorded'.
T_Return(query_id, state) ==
    IF t_stmt = "TEST"
    THEN IF state = "SUCCEEDED"
         THEN /\ t_pc' = "fetch"
              /\ UNCHANGED <<t_idx, t_stmt, all_results, elementary_result, t_response>>
         ELSE T_TestDone(ResultOfState(T_Test, state, query_id, 0))
    ELSE /\ T_Finish(all_results, Recorded(query_id, state))
         /\ UNCHANGED <<t_idx, t_stmt, all_results>>

\* execute_athena_query up to its loop: start_query_execution starts the
\* query, or raises (REJECTED: no query exists).
T_Start ==
    /\ t_pc = "start"
    /\ t_submitted' = Append(t_submitted, T_Statement)
    /\ t_attempts' = 0
    /\ \E started \in BOOLEAN :
        /\ t_query' = [state |-> IF started THEN "RUNNING" ELSE "REJECTED",
                       rows |-> 0, fetched |-> FALSE]
        /\ IF started
           THEN /\ t_pc' = "poll"
                /\ UNCHANGED <<t_idx, t_stmt, all_results, elementary_result, t_response>>
           ELSE T_Raise(ClientError)
    /\ UNCHANGED <<t_action, t_layer, t_tests>>

\* One turn of the poll loop: get_query_execution, then return or sleep and
\* count the attempt.  A predicate that SUCCEEDED has k result rows.  The
\* counter is a local of the call: it is zeroed when the call returns or
\* raises from inside the loop.
T_Poll ==
    /\ t_pc = "poll"
    /\ T_LoopContinues(t_attempts)
    /\ \E answer \in T_PollAnswers(t_stmt) :
        IF answer.state = "API_ERROR"
        THEN /\ T_Raise(ClientError)
             /\ t_attempts' = 0
             /\ UNCHANGED t_query
        ELSE /\ t_query' = [t_query EXCEPT !.state = answer.state, !.rows = answer.rows]
             /\ IF T_IsTerminal(answer.state)
                THEN /\ T_Return(Len(t_submitted), answer.state)
                     /\ t_attempts' = 0
                ELSE /\ t_attempts' = t_attempts + 1
                     /\ UNCHANGED <<t_pc, t_idx, t_stmt, all_results, elementary_result,
                                    t_response>>
    /\ UNCHANGED <<t_action, t_layer, t_submitted, t_tests>>

\* The loop ended without a terminal state: the timeout is raised.
T_Timeout ==
    /\ t_pc = "poll"
    /\ ~T_LoopContinues(t_attempts)
    /\ T_Raise(QueryTimedOut)
    /\ UNCHANGED <<t_action, t_layer, t_attempts, t_query, t_submitted, t_tests>>

\* run_test for a SUCCEEDED predicate: get_query_result_count (whose
\* get_query_results may raise), the status and the record.
T_Fetch ==
    /\ t_pc = "fetch"
    /\ \E fetched \in BOOLEAN :
        /\ t_query' = [t_query EXCEPT !.fetched = fetched]
        /\ T_TestDone(ResultOfState(T_Test, "SUCCEEDED", Len(t_submitted),
                                    get_query_result_count(t_query.rows, fetched)))
    /\ UNCHANGED <<t_action, t_layer, t_attempts, t_submitted, t_tests>>

(***************************************************************************)
(* The report renderer: scripts/generate_test_report.py                    *)
(*                                                                         *)
(* generate_report runs six queries one after the other through run_query  *)
(* and computes the summary statistics from the first.  The table          *)
(* elementary_test_results is the one record_to_elementary inserts into:   *)
(* a row keeps the invocation identifier, the detected_at timestamp (the   *)
(* test's executed_at), the status and the test's place in its run.  A     *)
(* query reads the table when the engine reports it SUCCEEDED.             *)
(***************************************************************************)

\* How many invocations the table comes to hold, how many rows an invocation
\* inserts, and the timestamps a row can carry.
MaxInvocations == 2

MaxRowsPerRun == 2

MaxTime == 2

Statuses == {"pass", "fail", "error"}

\* The six queries of generate_report, in the order of their run_query calls.
Queries == <<"invocations", "latest_tests", "counts", "coverage", "test_types", "trend">>

\* The invocation of an empty result (SQL's NULL, Python's empty dict):
\* identifiers of invocations are 1, 2, ...
NoInvocation == 0

InvocationIds(tab) == {row.invocation_id : row \in tab}

\* WHERE invocation_id = id
RowsOf(tab, id) == {row \in tab : row.invocation_id = id}

\* SUM(CASE WHEN status = s THEN 1 ELSE 0 END)
SumCase(rows, s) == Cardinality({row \in rows : row.status = s})

\* MIN(detected_at)
MinDetectedAt(rows) ==
    CHOOSE t \in {row.detected_at : row \in rows} :
        \A row \in rows : t <= row.detected_at

\* One row of the invocations query: GROUP BY invocation_id.
InvocationRow(tab, id) ==
    [invocation_id |-> id, run_time |-> MinDetectedAt(RowsOf(tab, id)),
     tests |-> Cardinality(RowsOf(tab, id)),
     passed |-> SumCase(RowsOf(tab, id), "pass"),
     failed |-> SumCase(RowsOf(tab, id), "fail")]

\* LIMIT n
Limit(s, n) == SubSeq(s, 1, Min(Len(s), n))

\* ORDER BY run_time DESC LIMIT 10: every order of the groups that descends
\* by run_time (groups of equal run_time come in either order).
InvocationsAnswers(tab) ==
    LET ids == InvocationIds(tab)
        n == Cardinality(ids)
        orders == {f \in [1..n -> ids] : \A i, j \in 1..n : i # j => f[i] # f[j]}
        rows(f) == [i \in 1..n |-> InvocationRow(tab, f[i])]
    IN {Limit(rows(f), 10) : f \in
           {g \in orders : \A i, j \in 1..n :
                i < j => rows(g)[i].run_time >= rows(g)[j].run_time}}

\* SELECT invocation_id ... ORDER BY detected_at DESC LIMIT 1: the
\* invocation of a row of greatest detected_at (any of them when several
\* rows share it), nothing on an empty table.
\* The subselect ordered the other way: ORDER BY detected_at ASC LIMIT 1.
EarliestInvocation(tab) ==
    IF tab = {} THEN {NoInvocation}
    ELSE {row.invocation_id : row \in
             {r \in tab : \A r2 \in tab : r.detected_at <= r2.detected_at}}

LatestInvocation(tab) ==
    IF tab = {} THEN {NoInvocation}
    ELSE {row.invocation_id : row \in
             {r \in tab : \A r2 \in tab : r2.detected_at <= r.detected_at}}

\* The rows the three queries with that subselect read: those of the
\* invocation it selected (the queries then order or group them).
LatestRowsAnswers(tab) ==
    {[invocation_id |-> id,
      rows |-> {[n |-> row.n, status |-> row.status] : row \in RowsOf(tab, id)}] :
        id \in LatestInvocation(tab)}

\* The trend query: the table's rows of one day.
TrendAnswer(tab) ==
    [runs |-> Cardinality(InvocationIds(tab)), total_tests |-> Cardinality(tab),
     passed |-> SumCase(tab, "pass")]

\* What run_query returns for the query named q when the engine evaluates
\* it on tab.  seen is the number of invocations tab holds.
QueryAnswers(q, tab) ==
    LET seen == Cardinality(InvocationIds(tab)) IN
    IF q = "invocations"
    THEN {[query |-> q, seen |-> seen, rows |-> rows] : rows \in InvocationsAnswers(tab)}
    ELSE IF q \in {"latest_tests", "coverage", "test_types"}
    THEN {[query |-> q, seen |-> seen, invocation_id |-> a.invocation_id, rows |-> a.rows] :
             a \in LatestRowsAnswers(tab)}
    ELSE IF q = "trend"
    THEN {[query |-> q, seen |-> seen, rows |-> TrendAnswer(tab)]}
    ELSE {[query |-> q, seen |-> seen]}

\* Python's format of a quotient num / den with '.0f': the nearest integer,
\* the even one of two that are equally near.
RoundHalfEven(num, den) ==
    LET q == num \div den
        r == num % den
    IN IF 2 * r < den THEN q
       ELSE IF 2 * r > den THEN q + 1
       ELSE IF q % 2 = 0 THEN q ELSE q + 1

\* A pass rate that leaves the factor 100 out.
pass_rate_fraction(passed, total_tests) ==
    IF total_tests > 0 THEN RoundHalfEven(passed, total_tests) ELSE 0

\* pass_rate = (passed / total_tests * 100) if total_tests > 0 else 0, as
\* the banner shows it ({pass_rate:.0f}).
pass_rate(passed, total_tests) ==
    IF total_tests > 0 THEN RoundHalfEven(passed * 100, total_tests) ELSE 0

\* The heading of the status banner:
\* 'All Tests Passing' if failed == 0 else f'{failed} Tests Failing'
Banner(failed) ==
    [text |-> IF failed = 0 THEN "All Tests Passing" ELSE "Tests Failing", failed |-> failed]

\* latest = invocations[0] if invocations else {}, and the statistics read
\* from it with a default of 0; banner is what the page shows of them.
SummaryStats(invocations) ==
    LET total_tests == IF invocations = <<>> THEN 0 ELSE invocations[1].tests
        passed == IF invocations = <<>> THEN 0 ELSE invocations[1].passed
        failed == IF invocations = <<>> THEN 0 ELSE invocations[1].failed
    IN [latest |-> IF invocations = <<>> THEN NoInvocation ELSE invocations[1].invocation_id,
        total_tests |-> total_tests, passed |-> passed, failed |-> failed,
        pass_rate |-> pass_rate(passed, total_tests), banner |-> Banner(failed)]

NoStats == [latest |-> NoInvocation, total_tests |-> 0, passed |-> 0, failed |-> 0, pass_rate |-> 0,
            banner |-> Banner(0)]

R_Init ==
    /\ r_pc = "idle"
    /\ r_q = 0
    /\ r_out = <<>>
    /\ r_stats = NoStats
    /\ table = {}

\* python generate_test_report.py: generate_report calls run_query for the
\* first query.
R_Begin ==
    /\ r_pc = "idle"
    /\ r_pc' = "start"
    /\ r_q' = 1
    /\ UNCHANGED <<r_out, r_stats, table>>

\* run_query: start_query_execution, which may raise; the script has no
\* except, an exception ends it.
R_Start ==
    /\ r_pc = "start"
    /\ \E started \in BOOLEAN : r_pc' = IF started THEN "poll" ELSE "raised"
    /\ UNCHANGED <<r_q, r_out, r_stats, table>>

\* A poll that learns of every terminal state but SUCCEEDED as RUNNING.
R_PollBreaks(state) == state \in {"SUCCEEDED", "FAILED", "CANCELLED"}

\* run_query's loop: while True, get_query_execution, break on a terminal
\* state.  After the break a state other than SUCCEEDED raises; for
\* SUCCEEDED get_query_results (which may raise) gives the rows.
R_Poll ==
    /\ r_pc = "poll"
    /\ \E state \in {"RUNNING", "SUCCEEDED", "FAILED", "CANCELLED", "API_ERROR"} :
        IF state = "API_ERROR"
        THEN /\ r_pc' = "raised"
             /\ UNCHANGED <<r_q, r_out>>
        ELSE IF ~R_PollBreaks(state)
        THEN /\ r_pc' = "sleep"
             /\ UNCHANGED <<r_q, r_out>>
        ELSE IF state # "SUCCEEDED"
        THEN /\ r_pc' = "raised"
             /\ UNCHANGED <<r_q, r_out>>
        ELSE \E fetched \in BOOLEAN :
             IF ~fetched
             THEN /\ r_pc' = "raised"
                  /\ UNCHANGED <<r_q, r_out>>
             ELSE \E answer \in QueryAnswers(Queries[r_q], table) :
                  /\ r_out' = Append(r_out, answer)
                  /\ IF r_q < Len(Queries)
                     THEN /\ r_q' = r_q + 1
                          /\ r_pc' = "start"
                     ELSE /\ r_q' = r_q
                          /\ r_pc' = "stats"
    /\ UNCHANGED <<r_stats, table>>

\* time.sleep(1), then the next turn of the loop.
R_Sleep ==
    /\ r_pc = "sleep"
    /\ r_pc' = "poll"
    /\ UNCHANGED <<r_q, r_out, r_stats, table>>

\* The summary statistics, computed after the six queries.
R_Stats ==
    /\ r_pc = "stats"
    /\ r_stats' = SummaryStats(r_out[1].rows)
    /\ r_pc' = "done"
    /\ UNCHANGED <<r_q, r_out, table>>

\* The rows of one INSERT of record_to_elementary: k rows that carry the
\* run's invocation identifier, the status of each test and its
\* executed_at, which does not decrease along the run.
InsertedRows(id, k, status, at) ==
    {[invocation_id |-> id, n |-> i, status |-> status[i], detected_at |-> at[i]] :
        i \in 1..k}

\* A test run's INSERT reaches the table, its timestamps being among the
\* first last ones.
TableInsertUpTo(last) ==
    /\ Cardinality(InvocationIds(table)) < MaxInvocations
    /\ \E k \in 1..MaxRowsPerRun :
       \E status \in [1..k -> Statuses], at \in [1..k -> 1..last] :
        /\ \A i, j \in 1..k : i < j => at[i] <= at[j]
        /\ table' = table \cup
               InsertedRows(Cardinality(InvocationIds(table)) + 1, k, status, at)
    /\ UNCHANGED <<r_pc, r_q, r_out, r_stats>>

TableInsert == TableInsertUpTo(MaxTime)

(***************************************************************************)
(* Several invocations of the test executor at once.  Each is a Lambda     *)
(* execution of its own running run_tests; run_test is one step here, and  *)
(* of its record only the keys that identify it are kept.  uuid.uuid4()    *)
(* is modelled by what it is used for: it returns a value that no call     *)
(* returned before (that two random 122-bit values coincide is left out).  *)
(***************************************************************************)

\* How many invocations of the test executor run at once.
MaxRuns == 2

Runs == 1..MaxRuns

\* str(uuid.uuid4()), given how many values have been drawn so far.
uuid4(drawn) == drawn + 1

\* run_test's record, with the keys this part is about.
TestRecord(test, invocation_id) ==
    [test |-> test, invocation_id |-> invocation_id]

\* A tuple of VALUES that takes its own id for the invocation's.
InsertRowOwnId(r, invocation_id, id) ==
    [id |-> id, test_execution_id |-> id + 1, invocation_id |-> id, test |-> r.test]

\* One tuple of VALUES of the INSERT, built from the record r: its id and
\* test_execution_id are two fresh uuid4 values, its invocation_id is
\* record_to_elementary's parameter.
InsertRow(r, invocation_id, id) ==
    [id |-> id, test_execution_id |-> id + 1, invocation_id |-> invocation_id,
     test |-> r.test]

\* The tests the run visits.
U_Plan(run) == TestsToRun(LayersToRun(u_layer[run]))

U_Init ==
    /\ u_pc = [run \in Runs |-> "idle"]
    /\ u_layer = [run \in Runs |-> None]
    /\ u_invocation_id = [run \in Runs |-> 0]
    /\ u_results = [run \in Runs |-> <<>>]
    /\ u_insert = [run \in Runs |-> <<>>]
    /\ uuid_drawn = 0

\* lambda_handler with action run_tests: run_tests draws invocation_id and
\* enters its loops.
U_Invoke(run, layer) ==
    /\ u_pc[run] = "idle"
    /\ u_layer' = [u_layer EXCEPT ![run] = layer]
    /\ u_invocation_id' = [u_invocation_id EXCEPT ![run] = uuid4(uuid_drawn)]
    /\ uuid_drawn' = uuid_drawn + 1
    /\ u_pc' = [u_pc EXCEPT ![run] =
                   IF TestsToRun(LayersToRun(layer)) = <<>> THEN "record" ELSE "test"]
    /\ UNCHANGED <<u_results, u_insert>>

\* result = run_test(test_config, invocation_id); all_results.append(result)
U_RunTest(run) ==
    /\ u_pc[run] = "test"
    /\ u_results' = [u_results EXCEPT ![run] =
           Append(@, TestRecord(U_Plan(run)[Len(@) + 1], u_invocation_id[run]))]
    /\ u_pc' = [u_pc EXCEPT ![run] =
                   IF Len(u_results[run]) + 1 = Len(U_Plan(run)) THEN "record" ELSE "test"]
    /\ UNCHANGED <<u_layer, u_invocation_id, u_insert, uuid_drawn>>

\* record_to_elementary(all_results, invocation_id): nothing for an empty
\* list, else the INSERT with one tuple per record; run_tests returns.
U_Record(run) ==
    /\ u_pc[run] = "record"
    /\ u_insert' = [u_insert EXCEPT ![run] =
           [i \in 1..Len(u_results[run]) |->
               InsertRow(u_results[run][i], u_invocation_id[run],
                         uuid4(uuid_drawn + 2 * (i - 1)))]]
    /\ uuid_drawn' = uuid_drawn + 2 * Len(u_results[run])
    /\ u_pc' = [u_pc EXCEPT ![run] = "returned"]
    /\ UNCHANGED <<u_layer, u_invocation_id, u_results>>

(***************************************************************************)
(* Several invocations of the model executor at once, on one catalog.      *)
(* The engine is the one the statements are written for: DROP ... IF       *)
(* EXISTS removes the object if it is there and succeeds; CREATE VIEW and  *)
(* CREATE TABLE ... AS (there is no OR REPLACE) fail when the object       *)
(* exists or an object their SELECT reads is missing.  A query is          *)
(* executed at some moment after its start_query_execution, and the poll   *)
(* loop sees its terminal state after that; here every query is executed   *)
(* within the poll loop's budget.                                          *)
(***************************************************************************)

\* The objects run_layer drops and creates.
Objects == {MODELS[layer][i] : layer \in DOMAIN MODELS, i \in 1..2}

\* What the catalog says of an object: absent, or who created it (0: it was
\* there before these invocations, else the invocation).
Absent == -1

Earlier == 0

\* The models a model's SELECT reads (the raw tables events and users are
\* not the executor's).
Sources(model) ==
    IF model = "dim_users" THEN {"stg_raw_users"}
    ELSE IF model = "fct_events" THEN {"stg_raw_events", "stg_raw_users"}
    ELSE {}

\* A model run that only creates.
StatementsWithoutDrop(layer) == <<"CREATE">>

\* run_staging_model / run_marts_model: the statements of one model.
StatementsOf(layer) == <<"DROP", "CREATE">>

NoQuery == [state |-> "NONE", found |-> Absent, kind |-> None, created_by |-> Absent]

\* The engine executes stmt on model for the invocation run: the query's
\* terminal state, why it failed, and the catalog after it.
Execute(stmt, model, cat, run) ==
    IF stmt = "DROP"
    THEN [state |-> "SUCCEEDED", kind |-> None, created_by |-> Absent,
          catalog |-> [cat EXCEPT ![model] = Absent]]
    ELSE IF cat[model] # Absent
    THEN [state |-> "FAILED", kind |-> "already exists", created_by |-> cat[model],
          catalog |-> cat]
    ELSE IF \E s \in Sources(model) : cat[s] = Absent
    THEN [state |-> "FAILED", kind |-> "source missing", created_by |-> Absent,
          catalog |-> cat]
    ELSE [state |-> "SUCCEEDED", kind |-> None, created_by |-> Absent,
          catalog |-> [cat EXCEPT ![model] = run]]

\* The invocations before they start.
C_Idle ==
    /\ c_pc = [run \in Runs |-> "idle"]
    /\ c_layer = [run \in Runs |-> None]
    /\ c_idx = [run \in Runs |-> 0]
    /\ c_stmt = [run \in Runs |-> 0]
    /\ c_query = [run \in Runs |-> NoQuery]
    /\ c_results = [run \in Runs |-> <<>>]
    /\ c_response = [run \in Runs |-> None]
    /\ c_abandoned = {}

C_Init == C_Idle /\ catalog = [o \in Objects |-> Absent]

C_Model(run) == MODELS[c_layer[run]][c_idx[run]]

C_Statement(run) == StatementsOf(c_layer[run])[c_stmt[run]]

\* lambda_handler with action run_layer and a layer of MODELS: run_layer
\* is at the first statement of the first model.
C_Invoke(run, layer) ==
    /\ c_pc[run] = "idle"
    /\ InModels(layer)
    /\ c_layer' = [c_layer EXCEPT ![run] = layer]
    /\ c_idx' = [c_idx EXCEPT ![run] = 1]
    /\ c_stmt' = [c_stmt EXCEPT ![run] = 1]
    /\ c_pc' = [c_pc EXCEPT ![run] = "submit"]
    /\ UNCHANGED <<catalog, c_query, c_results, c_response, c_abandoned>>

\* execute_athena_query: start_query_execution.  found is what the catalog
\* says of the object at this moment.
C_Submit(run) ==
    /\ c_pc[run] = "submit"
    /\ c_query' = [c_query EXCEPT ![run] =
           [state |-> "RUNNING", found |-> catalog[C_Model(run)],
            kind |-> None, created_by |-> Absent]]
    /\ c_pc' = [c_pc EXCEPT ![run] = "poll"]
    /\ UNCHANGED <<catalog, c_layer, c_idx, c_stmt, c_results, c_response, c_abandoned>>

\* The engine executes the invocation's query.
C_Execute(run) ==
    /\ c_pc[run] = "poll"
    /\ c_query[run].state = "RUNNING"
    /\ LET done == Execute(C_Statement(run), C_Model(run), catalog, run) IN
        /\ catalog' = done.catalog
        /\ c_query' = [c_query EXCEPT ![run] =
               [state |-> done.state, found |-> @.found,
                kind |-> done.kind, created_by |-> done.created_by]]
    /\ UNCHANGED <<c_pc, c_layer, c_idx, c_stmt, c_results, c_response, c_abandoned>>

\* The poll loop sees the terminal state.  A DROP's exception is swallowed
\* and the CREATE is next; a CREATE's exception ends the invocation with
\* status FAILED; a CREATE that SUCCEEDED is recorded, and the next model
\* or the return with status SUCCESS follows.
C_Observe(run) ==
    /\ c_pc[run] = "poll"
    /\ IsTerminal(c_query[run].state)
    /\ IF c_stmt[run] < Len(StatementsOf(c_layer[run]))
       THEN /\ c_stmt' = [c_stmt EXCEPT ![run] = @ + 1]
            /\ c_pc' = [c_pc EXCEPT ![run] = "submit"]
            /\ UNCHANGED <<c_idx, c_results, c_response>>
       ELSE IF RaisesOnState(c_query[run].state)
       THEN /\ c_response' = [c_response EXCEPT ![run] = "FAILED"]
            /\ c_pc' = [c_pc EXCEPT ![run] = "returned"]
            /\ UNCHANGED <<c_idx, c_stmt, c_results>>
       ELSE /\ c_results' = [c_results EXCEPT ![run] =
                   Append(@, [model |-> C_Model(run), state |-> c_query[run].state])]
            /\ IF c_idx[run] < Len(MODELS[c_layer[run]])
               THEN /\ c_idx' = [c_idx EXCEPT ![run] = @ + 1]
                    /\ c_stmt' = [c_stmt EXCEPT ![run] = 1]
                    /\ c_pc' = [c_pc EXCEPT ![run] = "submit"]
                    /\ UNCHANGED c_response
               ELSE /\ c_response' = [c_response EXCEPT ![run] = "SUCCESS"]
                    /\ c_pc' = [c_pc EXCEPT ![run] = "returned"]
                    /\ UNCHANGED <<c_idx, c_stmt>>
    /\ UNCHANGED <<catalog, c_layer, c_query, c_abandoned>>

\* The poll loop ends with attempts = max_attempts while the engine has not
\* finished the query: 'Query timed out' is raised.  The query stays with
\* the engine (nothing cancels it).  A DROP's exception is swallowed and the
\* CREATE is next; a CREATE's exception ends the invocation with FAILED.
C_Timeout(run) ==
    /\ c_pc[run] = "poll"
    /\ ~IsTerminal(c_query[run].state)
    /\ c_abandoned' = c_abandoned \cup
           {[stmt |-> C_Statement(run), model |-> C_Model(run), run |-> run, pending |-> TRUE]}
    /\ IF c_stmt[run] < Len(StatementsOf(c_layer[run]))
       THEN /\ c_stmt' = [c_stmt EXCEPT ![run] = @ + 1]
            /\ c_pc' = [c_pc EXCEPT ![run] = "submit"]
            /\ UNCHANGED c_response
       ELSE /\ c_response' = [c_response EXCEPT ![run] = "FAILED"]
            /\ c_pc' = [c_pc EXCEPT ![run] = "returned"]
            /\ UNCHANGED c_stmt
    /\ UNCHANGED <<catalog, c_layer, c_idx, c_query, c_results>>

\* The engine executes a query whose submitter no longer polls it.
C_ExecuteAbandoned ==
    \E q \in c_abandoned :
        /\ q.pending
        /\ catalog' = Execute(q.stmt, q.model, catalog, q.run).catalog
        /\ c_abandoned' = (c_abandoned \ {q}) \cup {[q EXCEPT !.pending = FALSE]}
        /\ UNCHANGED <<c_pc, c_layer, c_idx, c_stmt, c_query, c_results, c_response>>

(***************************************************************************)
(* The pipeline DAG: dags/lakehouse_pipeline.py                            *)
(*                                                                         *)
(* One run of the DAG under Airflow's scheduler.  No task sets a           *)
(* trigger_rule, so each has the default all_success: a task instance is   *)
(* started when all its upstream tasks are in state success, and is set    *)
(* to upstream_failed when one of them failed.  default_args gives every   *)
(* task one retry.                                                         *)
(***************************************************************************)

\* The tasks, by the names the file binds them to.
Tasks == {"start_pipeline", "wait_for_ingestion", "dbt_deps", "dbt_run_staging",
          "dbt_run_intermediate", "dbt_run_marts", "dbt_test"}

\* a >> b >> c: an edge from each task to the next.
Chain(tasks) == {<<tasks[i], tasks[i + 1]>> : i \in 1..(Len(tasks) - 1)}

\* The second dependency statement without its last task.
DependenciesWithoutTest ==
    Chain(<<"start_pipeline", "wait_for_ingestion", "dbt_deps">>)
        \cup Chain(<<"dbt_deps", "dbt_run_staging", "dbt_run_intermediate", "dbt_run_marts">>)

\* The two dependency statements of the file.
Dependencies ==
    Chain(<<"start_pipeline", "wait_for_ingestion", "dbt_deps">>)
        \cup Chain(<<"dbt_deps", "dbt_run_staging", "dbt_run_intermediate",
                     "dbt_run_marts", "dbt_test">>)

Upstream(task) == {e[1] : e \in {d \in Dependencies : d[2] = task}}

\* default_args['retries']
retries == 1

D_Init ==
    /\ d_state = [task \in Tasks |-> "none"]
    /\ d_tries = [task \in Tasks |-> 0]

\* The scheduler starts a task instance whose upstream tasks all succeeded.
D_Start(task) ==
    /\ d_state[task] = "none"
    /\ \A up \in Upstream(task) : d_state[up] = "success"
    /\ d_state' = [d_state EXCEPT ![task] = "running"]
    /\ d_tries' = [d_tries EXCEPT ![task] = 1]

\* The operator's execute returned (for the sensor: a poke found the
\* execution succeeded).
D_Succeed(task) ==
    /\ d_state[task] = "running"
    /\ d_state' = [d_state EXCEPT ![task] = "success"]
    /\ UNCHANGED d_tries

\* The operator's execute raised (for the sensor: also its timeout): the
\* task is retried while it has tries left.
D_Fail(task) ==
    /\ d_state[task] = "running"
    /\ d_state' = [d_state EXCEPT ![task] =
                      IF d_tries[task] <= retries THEN "up_for_retry" ELSE "failed"]
    /\ UNCHANGED d_tries

\* After retry_delay the task instance runs again.
D_Retry(task) ==
    /\ d_state[task] = "up_for_retry"
    /\ d_state' = [d_state EXCEPT ![task] = "running"]
    /\ d_tries' = [d_tries EXCEPT ![task] = @ + 1]

\* A task with a failed upstream task is not run.
D_UpstreamFailed(task) ==
    /\ d_state[task] = "none"
    /\ \E up \in Upstream(task) : d_state[up] \in {"failed", "upstream_failed"}
    /\ d_state' = [d_state EXCEPT ![task] = "upstream_failed"]
    /\ UNCHANGED d_tries

(***************************************************************************)
(* The dataset generators: src/data/generate_batch3.py, generate_batch4.py *)
(* and generate_large_dataset.py.  The three scripts have the same two     *)
(* functions and differ in how they write an identifier.  An identifier is *)
(* kept as the sequence of its characters' groups: the literal parts, then *)
(* one string per decimal digit, so that the formatting is computed.       *)
(* The fields the functions fill from the clock and from random.choice     *)
(* over fixed lists (email, name, created_at, country, page, timestamp,    *)
(* session_id) are left out of the records.                                *)
(***************************************************************************)

MaxUsers == 3

MaxEvents == 2

Scripts == {"generate_batch3", "generate_batch4", "generate_large_dataset"}

\* BATCH_ID of the two batch scripts; the large dataset has none
BATCH_ID(script) ==
    CASE script = "generate_batch3" -> <<"B3">>
      [] script = "generate_batch4" -> <<"B4">>
      [] OTHER -> <<>>

\* the number the f-string formats for position i of the loop (i from 0)
UserNumber(script, i) == IF script = "generate_large_dataset" THEN 200 + i ELSE i + 1

EventNumber(script, i) == IF script = "generate_large_dataset" THEN 100 + i ELSE i + 1

DigitChars == <<"0", "1", "2", "3", "4", "5", "6", "7", "8", "9">>

RECURSIVE Decimal(_)
\* str(n) for n >= 0, one string per digit
Decimal(n) == IF n < 10 THEN <<DigitChars[n + 1]>>
              ELSE Decimal(n \div 10) \o <<DigitChars[(n % 10) + 1]>>

RECURSIVE ZeroFill(_, _)
ZeroFill(digits, width) == IF Len(digits) >= width THEN digits
                           ELSE ZeroFill(<<"0">> \o digits, width)

\* the same number without the fill, as '{n}' would write it
FormatPlain(n) == Decimal(n)

\* the format specification ':03d': zero-filled to a width of at least 3
Format03d(n) == ZeroFill(Decimal(n), 3)

\* f"usr-{BATCH_ID}-{i+1:03d}" and f"usr-{200 + i:03d}"
user_id(script, i) == <<"usr-">> \o BATCH_ID(script) \o Format03d(UserNumber(script, i))

\* f"evt-{BATCH_ID}-{i+1:03d}" and f"evt-{100 + i:03d}"
event_id(script, i) == <<"evt-">> \o BATCH_ID(script) \o Format03d(EventNumber(script, i))

EVENT_TYPES == {"page_view", "click", "purchase", "signup", "login", "logout"}

\* the ends of random.uniform's interval, in cents
Amounts(script) ==
    CASE script = "generate_batch3" -> {1999, 29999}
      [] script = "generate_batch4" -> {2999, 19999}
      [] OTHER -> {999, 49999}

\* generate_users(num_users): one record per i in range(num_users)
generate_users(script, num_users) ==
    [i \in 1..num_users |-> [user_id |-> user_id(script, i - 1)]]

\* the event dict of one turn of generate_events' loop
EventOf(script, i, user, event_type) ==
    [event_id |-> event_id(script, i), user_id |-> user.user_id, event_type |-> event_type]

\* event["amount"] = round(random.uniform(...), 2)
WithAmount(event, amount) ==
    [k \in DOMAIN event \cup {"amount"} |-> IF k = "amount" THEN amount ELSE event[k]]

G_Init ==
    /\ g_pc = "idle"
    /\ g_script = None
    /\ g_num_users = 0
    /\ g_num_events = 0
    /\ g_users = <<>>
    /\ g_events = <<>>

\* users = generate_users(num_users)
G_Users(script, num_users) ==
    /\ g_pc = "idle"
    /\ g_script' = script
    /\ g_num_users' = num_users
    /\ g_users' = generate_users(script, num_users)
    /\ g_pc' = "users"
    /\ UNCHANGED <<g_num_events, g_events>>

\* the call generate_events(users, num_events): events = []
G_Events(num_events) ==
    /\ g_pc = "users"
    /\ g_num_events' = num_events
    /\ g_events' = <<>>
    /\ g_pc' = "events"
    /\ UNCHANGED <<g_script, g_num_users, g_users>>

\* one turn of the loop: the two random choices, the dict, the amount, the append
G_Event ==
    /\ g_pc = "events"
    /\ Len(g_events) < g_num_events
    /\ g_users # <<>>
    /\ \E u \in 1..Len(g_users), event_type \in EVENT_TYPES, amount \in Amounts(g_script) :
         LET event == EventOf(g_script, Len(g_events), g_users[u], event_type)
         IN  g_events' = Append(g_events,
                 IF event_type = "purchase" THEN WithAmount(event, amount) ELSE event)
    /\ UNCHANGED <<g_pc, g_script, g_num_users, g_num_events, g_users>>

\* random.choice(users) on an empty list raises IndexError
G_Raise ==
    /\ g_pc = "events"
    /\ Len(g_events) < g_num_events
    /\ g_users = <<>>
    /\ g_pc' = "raised"
    /\ UNCHANGED <<g_script, g_num_users, g_num_events, g_users, g_events>>

\* return events
G_Return ==
    /\ g_pc = "events"
    /\ Len(g_events) = g_num_events
    /\ g_pc' = "returned"
    /\ UNCHANGED <<g_script, g_num_users, g_num_events, g_users, g_events>>

(***************************************************************************)
(* Specifications                                                          *)
(***************************************************************************)

Init == M_Init /\ T_Init /\ R_Init /\ U_Init /\ C_Init /\ D_Init /\ G_Init

ModelExecNext ==
    \/ (\E action \in ModelActionInputs, layer \in LayerInputs : M_Invoke(action, layer))
         /\ UNCHANGED <<t_vars, r_vars, u_vars, c_vars, d_vars, g_vars>>
    \/ M_Start /\ UNCHANGED <<t_vars, r_vars, u_vars, c_vars, d_vars, g_vars>>
    \/ M_Poll /\ UNCHANGED <<t_vars, r_vars, u_vars, c_vars, d_vars, g_vars>>
    \/ M_Timeout /\ UNCHANGED <<t_vars, r_vars, u_vars, c_vars, d_vars, g_vars>>

\* One invocation of the model executor's lambda_handler.
SpecModelExec == Init /\ [][ModelExecNext]_vars

TestExecNext ==
    \/ (\E action \in TestActionInputs, layer \in LayerInputs : T_Invoke(action, layer))
         /\ UNCHANGED <<m_vars, r_vars, u_vars, c_vars, d_vars, g_vars>>
    \/ T_Start /\ UNCHANGED <<m_vars, r_vars, u_vars, c_vars, d_vars, g_vars>>
    \/ T_Poll /\ UNCHANGED <<m_vars, r_vars, u_vars, c_vars, d_vars, g_vars>>
    \/ T_Timeout /\ UNCHANGED <<m_vars, r_vars, u_vars, c_vars, d_vars, g_vars>>
    \/ T_Fetch /\ UNCHANGED <<m_vars, r_vars, u_vars, c_vars, d_vars, g_vars>>

\* One invocation of the test executor's lambda_handler.
SpecTestExec == Init /\ [][TestExecNext]_vars

\* One invocation of either handler.
Next ==
    \/ t_pc = "idle" /\ ModelExecNext
    \/ m_pc = "idle" /\ TestExecNext

Spec == Init /\ [][Next]_vars

(***************************************************************************)
(* The test executor run for layer marts over the whole table TESTS, with  *)
(* an engine on which every predicate succeeds and is fetched, and at most *)
(* one predicate has violating rows (three of them).                       *)
(***************************************************************************)

InitAllTests ==
    /\ M_Init
    /\ R_Init
    /\ U_Init
    /\ C_Init
    /\ D_Init
    /\ G_Init
    /\ t_tests = TESTS
    /\ t_pc = "idle"
    /\ t_action = None
    /\ t_layer = None
    /\ t_idx = 0
    /\ t_stmt = None
    /\ t_attempts = 0
    /\ t_query = None
    /\ t_submitted = <<>>
    /\ all_results = <<>>
    /\ elementary_result = None
    /\ t_response = None

\* What the engine of the scenario answers for the predicates: no error
\* record, zero or three violating rows, three of them at most once.
MartsEngine ==
    /\ \A i \in 1..Len(all_results) :
           /\ all_results[i].status \in {"pass", "fail"}
           /\ all_results[i].failures \in {0, 3}
    /\ CountStatus(all_results, "fail") <= 1
    /\ (t_stmt = "TEST" /\ t_submitted # <<>>) => t_query.rows \in {0, 3}

MartsNext ==
    \/ T_Invoke("run_tests", "marts") /\ UNCHANGED <<m_vars, r_vars, u_vars, c_vars, d_vars, g_vars>>
    \/ T_Start /\ MartsEngine' /\ UNCHANGED <<m_vars, r_vars, u_vars, c_vars, d_vars, g_vars>>
    \/ T_Poll /\ MartsEngine' /\ UNCHANGED <<m_vars, r_vars, u_vars, c_vars, d_vars, g_vars>>
    \/ T_Timeout /\ MartsEngine' /\ UNCHANGED <<m_vars, r_vars, u_vars, c_vars, d_vars, g_vars>>
    \/ T_Fetch /\ t_query'.fetched /\ MartsEngine' /\ UNCHANGED <<m_vars, r_vars, u_vars, c_vars, d_vars, g_vars>>

SpecMartsTests == InitAllTests /\ [][MartsNext]_vars

(***************************************************************************)
(* The report renderer's specifications.                                   *)
(***************************************************************************)

ReportNext ==
    \/ R_Begin /\ UNCHANGED <<m_vars, t_vars, u_vars, c_vars, d_vars, g_vars>>
    \/ R_Start /\ UNCHANGED <<m_vars, t_vars, u_vars, c_vars, d_vars, g_vars>>
    \/ R_Poll /\ UNCHANGED <<m_vars, t_vars, u_vars, c_vars, d_vars, g_vars>>
    \/ R_Sleep /\ UNCHANGED <<m_vars, t_vars, u_vars, c_vars, d_vars, g_vars>>
    \/ R_Stats /\ UNCHANGED <<m_vars, t_vars, u_vars, c_vars, d_vars, g_vars>>
    \/ TableInsert /\ UNCHANGED <<m_vars, t_vars, u_vars, c_vars, d_vars, g_vars>>

\* One run of the script while test runs insert into the table.
SpecReport == Init /\ [][ReportNext]_vars

ReportQuietNext ==
    \/ R_Begin /\ UNCHANGED <<m_vars, t_vars, u_vars, c_vars, d_vars, g_vars>>
    \/ R_Start /\ UNCHANGED <<m_vars, t_vars, u_vars, c_vars, d_vars, g_vars>>
    \/ R_Poll /\ UNCHANGED <<m_vars, t_vars, u_vars, c_vars, d_vars, g_vars>>
    \/ R_Sleep /\ UNCHANGED <<m_vars, t_vars, u_vars, c_vars, d_vars, g_vars>>
    \/ R_Stats /\ UNCHANGED <<m_vars, t_vars, u_vars, c_vars, d_vars, g_vars>>
    \/ r_pc = "idle" /\ TableInsert /\ UNCHANGED <<m_vars, t_vars, u_vars, c_vars, d_vars, g_vars>>

\* One run of the script on a table no run inserts into meanwhile.  The
\* script is a running process: a step it can take is taken.
SpecReportQuiet ==
    /\ Init
    /\ [][ReportQuietNext]_vars
    /\ WF_r_vars(R_Start) /\ WF_r_vars(R_Poll) /\ WF_r_vars(R_Sleep) /\ WF_r_vars(R_Stats)

\* The timestamps of runs that overlap without sharing one: a run has rows
\* at 1 and 3, the other a row at 2.
MaxOverlapTime == 3

ReportStoredNext ==
    \/ R_Begin /\ UNCHANGED <<m_vars, t_vars, u_vars, c_vars, d_vars, g_vars>>
    \/ R_Start /\ UNCHANGED <<m_vars, t_vars, u_vars, c_vars, d_vars, g_vars>>
    \/ R_Poll /\ UNCHANGED <<m_vars, t_vars, u_vars, c_vars, d_vars, g_vars>>
    \/ R_Sleep /\ UNCHANGED <<m_vars, t_vars, u_vars, c_vars, d_vars, g_vars>>
    \/ R_Stats /\ UNCHANGED <<m_vars, t_vars, u_vars, c_vars, d_vars, g_vars>>
    \/ r_pc = "idle" /\ TableInsertUpTo(MaxOverlapTime)
         /\ UNCHANGED <<m_vars, t_vars, u_vars, c_vars, d_vars, g_vars>>

\* One run of the script on the stored rows of test runs that may have
\* overlapped in time; nothing is inserted while the script runs.
SpecReportStored == Init /\ [][ReportStoredNext]_vars

TestRunsNext ==
    \/ (\E run \in Runs, layer \in LayerInputs : U_Invoke(run, layer))
         /\ UNCHANGED <<m_vars, t_vars, r_vars, c_vars, d_vars, g_vars>>
    \/ (\E run \in Runs : U_RunTest(run)) /\ UNCHANGED <<m_vars, t_vars, r_vars, c_vars, d_vars, g_vars>>
    \/ (\E run \in Runs : U_Record(run)) /\ UNCHANGED <<m_vars, t_vars, r_vars, c_vars, d_vars, g_vars>>

\* Invocations of the test executor that overlap in time.
SpecTestRuns == Init /\ [][TestRunsNext]_vars

\* The catalog the invocations find: any of the objects may be there from
\* an earlier run.
InitCatalog ==
    /\ M_Init /\ T_Init /\ R_Init /\ U_Init /\ D_Init /\ G_Init
    /\ C_Idle
    /\ catalog \in [Objects -> {Absent, Earlier}]

RunLayersNext ==
    \/ (\E run \in Runs, layer \in LayerInputs : C_Invoke(run, layer))
         /\ UNCHANGED <<m_vars, t_vars, r_vars, u_vars, d_vars, g_vars>>
    \/ (\E run \in Runs : C_Submit(run)) /\ UNCHANGED <<m_vars, t_vars, r_vars, u_vars, d_vars, g_vars>>
    \/ (\E run \in Runs : C_Execute(run)) /\ UNCHANGED <<m_vars, t_vars, r_vars, u_vars, d_vars, g_vars>>
    \/ (\E run \in Runs : C_Observe(run)) /\ UNCHANGED <<m_vars, t_vars, r_vars, u_vars, d_vars, g_vars>>

\* Invocations of the model executor that overlap in time.
SpecRunLayers == InitCatalog /\ [][RunLayersNext]_vars

\* The first invocation, the only one there is.
Alone == CHOOSE run \in Runs : \A other \in Runs : run <= other

RunLayerAloneNext ==
    \/ (\E layer \in LayerInputs : C_Invoke(Alone, layer))
         /\ UNCHANGED <<m_vars, t_vars, r_vars, u_vars, d_vars, g_vars>>
    \/ C_Submit(Alone) /\ UNCHANGED <<m_vars, t_vars, r_vars, u_vars, d_vars, g_vars>>
    \/ C_Execute(Alone) /\ UNCHANGED <<m_vars, t_vars, r_vars, u_vars, d_vars, g_vars>>
    \/ C_Observe(Alone) /\ UNCHANGED <<m_vars, t_vars, r_vars, u_vars, d_vars, g_vars>>
    \/ C_Timeout(Alone) /\ UNCHANGED <<m_vars, t_vars, r_vars, u_vars, d_vars, g_vars>>
    \/ C_ExecuteAbandoned /\ UNCHANGED <<m_vars, t_vars, r_vars, u_vars, d_vars, g_vars>>

\* One invocation of the model executor and the engine, with queries that
\* outlast their poll loop.
SpecRunLayerAlone == InitCatalog /\ [][RunLayerAloneNext]_vars

DagNext ==
    \/ (\E task \in Tasks : D_Start(task))
         /\ UNCHANGED <<m_vars, t_vars, r_vars, u_vars, c_vars, g_vars>>
    \/ (\E task \in Tasks : D_Succeed(task))
         /\ UNCHANGED <<m_vars, t_vars, r_vars, u_vars, c_vars, g_vars>>
    \/ (\E task \in Tasks : D_Fail(task))
         /\ UNCHANGED <<m_vars, t_vars, r_vars, u_vars, c_vars, g_vars>>
    \/ (\E task \in Tasks : D_Retry(task))
         /\ UNCHANGED <<m_vars, t_vars, r_vars, u_vars, c_vars, g_vars>>
    \/ (\E task \in Tasks : D_UpstreamFailed(task))
         /\ UNCHANGED <<m_vars, t_vars, r_vars, u_vars, c_vars, g_vars>>

\* One run of the DAG.
SpecDag == Init /\ [][DagNext]_vars

\* The greatest number of tests of the latest invocation for which the
\* summary statistics are computed.
MaxTotal == 12

\* What the invocations query can have returned: nothing, or the latest
\* invocation's row, alone or followed by the row of an older one.
InvocationsInputs ==
    LET latest == {[invocation_id |-> 2, run_time |-> 2, tests |-> t, passed |-> p, failed |-> f] :
                      t \in 1..MaxTotal, p \in 0..MaxTotal, f \in 0..MaxTotal}
        older == [invocation_id |-> 1, run_time |-> 1, tests |-> 1, passed |-> 0, failed |-> 1]
    IN {<<>>} \cup {<<row>> : row \in {l \in latest : l.passed + l.failed <= l.tests}}
              \cup {<<row, older>> : row \in {l \in latest : l.passed + l.failed <= l.tests}}

\* generate_report after its six run_query calls, the first of which
\* returned invocations (the five others do not enter the statistics).
InitStats ==
    /\ M_Init
    /\ T_Init
    /\ U_Init
    /\ C_Init
    /\ D_Init
    /\ G_Init
    /\ r_pc = "stats"
    /\ r_q = Len(Queries)
    /\ \E invocations \in InvocationsInputs :
           r_out = <<[query |-> "invocations", seen |-> Len(invocations), rows |-> invocations]>>
                   \o [i \in 1..(Len(Queries) - 1) |-> [query |-> Queries[i + 1], seen |-> Len(invocations)]]
    /\ r_stats = NoStats
    /\ table = {}

StatsNext == R_Stats /\ UNCHANGED <<m_vars, t_vars, u_vars, c_vars, d_vars, g_vars>>

\* The summary statistics as a function of what the first query returned.
SpecPassRate == InitStats /\ [][StatsNext]_vars

GeneratorsNext ==
    \/ (\E script \in Scripts, num_users \in 0..MaxUsers : G_Users(script, num_users))
           /\ UNCHANGED <<m_vars, t_vars, r_vars, u_vars, c_vars, d_vars>>
    \/ (\E num_events \in 0..MaxEvents : G_Events(num_events))
           /\ UNCHANGED <<m_vars, t_vars, r_vars, u_vars, c_vars, d_vars>>
    \/ G_Event /\ UNCHANGED <<m_vars, t_vars, r_vars, u_vars, c_vars, d_vars>>
    \/ G_Raise /\ UNCHANGED <<m_vars, t_vars, r_vars, u_vars, c_vars, d_vars>>
    \/ G_Return /\ UNCHANGED <<m_vars, t_vars, r_vars, u_vars, c_vars, d_vars>>

\* One run of a generator script: generate_users, then generate_events on
\* what it returned, for every size of the two requests.
SpecGenerators == Init /\ [][GeneratorsNext]_vars

(***************************************************************************)
(* Properties of the test executor                                         *)
(***************************************************************************)

\* run_test has returned the record of a test and the next
\* start_query_execution has not been called: t_query is still the engine's
\* side of that test's predicate.
T_TestJustDone == t_pc = "start" /\ all_results # <<>>

\* The statements of kind stmt among the start_query_execution calls, in order.
T_Submitted(stmt) == SelectSeq(t_submitted, LAMBDA c : c.stmt = stmt)

\* run_tests ran (the action was run_tests) and the handler has returned.
T_RunReturned == t_pc = "returned" /\ t_action = "run_tests"

\* C1: a predicate that SUCCEEDED with zero violating rows gives the status
\* pass, one that SUCCEEDED with one or more violating rows gives fail, and
\* one whose execution failed (FAILED, CANCELLED, timed out, not started)
\* gives error with failure count 0.
C1_RunTestClassifies ==
    T_TestJustDone =>
        LET r == Last(all_results) IN
        /\ (t_query.state = "SUCCEEDED" /\ t_query.rows = 0) => r.status = "pass"
        /\ (t_query.state = "SUCCEEDED" /\ t_query.rows >= 1) => r.status = "fail"
        /\ t_query.state # "SUCCEEDED" => (r.status = "error" /\ r.failures = 0)

\* C2: every test definition of the selected layers is given to the engine
\* exactly once and has exactly one result record, in table order, whatever
\* the outcome of the other tests; and the INSERT holds all the records.
C2_EveryTestRunsOnceAndIsRecorded ==
    LET tests == T_Submitted("TEST")
        inserts == T_Submitted("INSERT") IN
    /\ Len(tests) <= Len(T_Plan)
    /\ \A i \in 1..Len(tests) : tests[i].test = T_Plan[i]
    /\ Len(all_results) <= Len(tests)
    /\ \A i \in 1..Len(all_results) : all_results[i].test = T_Plan[i]
    /\ \A i \in 1..Len(inserts) :
           /\ inserts[i].rows = all_results
           /\ Len(inserts[i].rows) = Len(T_Plan)
    /\ T_RunReturned =>
           /\ Len(tests) = Len(T_Plan)
           /\ Len(all_results) = Len(T_Plan)
           /\ t_response.summary.total = Len(T_Plan)
           /\ T_Plan # <<>> => Len(inserts) = 1

\* C2's case: a run that has returned, whose first test ended in error and
\* whose later tests ran all the same, the error record in the INSERT.
C2_Witness ==
    /\ T_RunReturned
    /\ Len(all_results) >= 2
    /\ all_results[1].status = "error"
    /\ all_results[2].status = "pass"
    /\ Last(t_submitted).stmt = "INSERT"
    /\ Last(t_submitted).rows[1].status = "error"

\* C3: when the recording INSERT does not succeed (FAILED, CANCELLED, timed
\* out, not started), the run's recording outcome is 'error', never
\* 'recorded'.
C3_FailedInsertIsNotRecorded ==
    (/\ T_RunReturned
     /\ t_submitted # <<>>
     /\ Last(t_submitted).stmt = "INSERT"
     /\ t_query.state # "SUCCEEDED")
    => /\ elementary_result.status = "error"
       /\ t_response.elementary.status = "error"

\* C5: an unknown layer name fails fast in the test executor: the caller
\* gets a failure (not statusCode 200 / SUCCESS) and no query is issued.
C5_UnknownTestLayerFails ==
    (t_pc = "returned" /\ t_layer = UnknownLayer)
    => /\ t_submitted = <<>>
       /\ t_response.statusCode # 200
       /\ t_response.status # "SUCCESS"

(***************************************************************************)
(* Properties of the model executor                                        *)
(***************************************************************************)

\* The handler has returned from a run_layer action.
M_RunReturned == m_pc = "returned" /\ m_action = "run_layer"

\* The model whose DROP or CREATE is the j-th start_query_execution call:
\* the calls come in pairs, one pair per model.
M_ModelOfCall(j) == MODELS[m_layer][(j + 1) \div 2]

\* C4: a CREATE that ends CANCELLED is surfaced as a failure: the handler
\* does not answer statusCode 200 / SUCCESS for such a run.
C4_CancelledCreateIsAFailure ==
    (/\ M_RunReturned
     /\ \E j \in 1..Len(m_athena) :
            m_athena[j].stmt = "CREATE" /\ m_athena[j].state = "CANCELLED")
    => /\ m_response.statusCode # 200
       /\ m_response.status # "SUCCESS"

\* C6: run_layer with a layer that is not a key of MODELS submits no DROP
\* and no CREATE, and the handler answers the unknown-layer failure.
C6_UnknownModelLayerFailsFast ==
    m_layer = UnknownLayer =>
        /\ m_athena = <<>>
        /\ m_pc \in {"idle", "returned"}
        /\ M_RunReturned =>
               /\ m_response.statusCode = 500
               /\ m_response.status = "FAILED"
               /\ m_response.error = UnknownLayerError

\* C6's case: run_layer was called with the unknown layer and has returned.
C6_Witness == M_RunReturned /\ m_layer = UnknownLayer

\* C7: the models are processed in the table's order, the DROP of a model
\* before its CREATE, and the DROP of the next model only after the CREATE
\* of the previous one reached a terminal state; for staging: DROP
\* stg_raw_events, CREATE stg_raw_events, DROP stg_raw_users, CREATE
\* stg_raw_users.
C7_DropThenCreateInTableOrder ==
    /\ \A j \in 1..Len(m_athena) :
           /\ j <= 2 * Len(MODELS[m_layer])
           /\ m_athena[j].stmt = (IF j % 2 = 1 THEN "DROP" ELSE "CREATE")
           /\ m_athena[j].model = M_ModelOfCall(j)
           /\ (j % 2 = 1 /\ j > 1) =>
                  m_athena[j - 1].state \in {"SUCCEEDED", "FAILED", "CANCELLED"}
    /\ (m_layer = "staging" /\ Len(m_athena) = 4) =>
           [j \in 1..4 |-> <<m_athena[j].stmt, m_athena[j].model>>]
               = << <<"DROP", "stg_raw_events">>, <<"CREATE", "stg_raw_events">>,
                    <<"DROP", "stg_raw_users">>, <<"CREATE", "stg_raw_users">> >>

\* C7's case: the four statements of layer staging have been submitted.
C7_Witness == m_layer = "staging" /\ Len(m_athena) = 4 /\ m_pc = "returned"

\* C8: whatever the outcome of a model's DROP (FAILED, timed out, not
\* started), the CREATE of the same model is submitted next and the run
\* goes on: the handler never returns on a DROP.
C8_DropFailureIsNotFatal ==
    \A j \in 1..Len(m_athena) :
        m_athena[j].stmt = "DROP" =>
            IF j < Len(m_athena)
            THEN /\ m_athena[j + 1].stmt = "CREATE"
                 /\ m_athena[j + 1].model = m_athena[j].model
            ELSE \/ m_pc = "poll" /\ m_stmt = "DROP"
                 \/ m_pc = "start" /\ m_stmt = "CREATE" /\ M_Model = m_athena[j].model

\* C8's case: the first DROP ended FAILED, the second was never answered
\* (RUNNING when the call gave up), and both CREATEs were submitted.
C8_Witness ==
    /\ Len(m_athena) = 4
    /\ m_athena[1].stmt = "DROP" /\ m_athena[1].state = "FAILED"
    /\ m_athena[3].stmt = "DROP" /\ m_athena[3].state = "RUNNING"
    /\ m_athena[4].stmt = "CREATE"

\* C8's other case: a DROP that could not be started, its CREATE submitted.
C8_WitnessNotStarted ==
    /\ Len(m_athena) >= 2
    /\ m_athena[1].stmt = "DROP" /\ m_athena[1].state = "REJECTED"
    /\ m_athena[2].stmt = "CREATE"

\* C9: when run_layer returns normally there is exactly one record per
\* model, in table order, each with the query identifier of that model's
\* CREATE and a terminal status; with both CREATEs of staging completed by
\* the engine, both records are SUCCEEDED.
C9_OneRecordPerModel ==
    (M_RunReturned /\ m_response.status = "SUCCESS") =>
        /\ m_response.results = m_results
        /\ Len(m_results) = Len(MODELS[m_layer])
        /\ \A i \in 1..Len(m_results) :
               LET r == m_results[i] IN
               /\ r.model = MODELS[m_layer][i]
               /\ r.layer = m_layer
               /\ r.QueryExecutionId \in 1..Len(m_athena)
               /\ m_athena[r.QueryExecutionId].stmt = "CREATE"
               /\ m_athena[r.QueryExecutionId].model = r.model
               /\ r.Status = m_athena[r.QueryExecutionId].state
               /\ r.Status \in {"SUCCEEDED", "FAILED", "CANCELLED"}
        /\ (/\ m_layer = "staging"
            /\ \A j \in 1..Len(m_athena) :
                   m_athena[j].stmt = "CREATE" => m_athena[j].state = "SUCCEEDED")
           => /\ Len(m_results) = 2
              /\ \A i \in 1..2 : m_results[i].Status = "SUCCEEDED"

\* C9's case: staging returned normally with both CREATEs SUCCEEDED.
C9_Witness ==
    /\ M_RunReturned
    /\ m_layer = "staging"
    /\ m_response.status = "SUCCESS"
    /\ Len(m_results) = 2
    /\ \A i \in 1..2 : m_results[i].Status = "SUCCEEDED"

(***************************************************************************)
(* Properties of both poll loops                                           *)
(***************************************************************************)

\* C10: execute_athena_query polls one query at most 60 times; a poll that
\* answers FAILED makes the model executor raise with the engine's reason;
\* and when 60 polls answered no terminal state the call raises the timeout
\* instead of returning a result.
C10_PollBudgetAndFailures ==
    /\ m_polls <= 60
    /\ m_attempts <= 60
    /\ t_attempts <= 60
    /\ \A i \in 1..Len(m_results) : m_results[i].Status # "FAILED"
    /\ (M_RunReturned /\ m_athena # <<>> /\ Last(m_athena).state = "FAILED") =>
           /\ m_response.status = "FAILED"
           /\ m_response.error.kind = "Query failed"
           /\ m_response.error.reason =
                  (IF Last(m_athena).reason = None THEN "Unknown"
                   ELSE Last(m_athena).reason)
    /\ (m_attempts = 60 /\ m_pc # "poll") =>
           /\ m_polls = 60
           /\ Last(m_athena).state = "RUNNING"
           /\ Last(m_athena).stmt = "DROP" => (m_pc = "start" /\ m_stmt = "CREATE")
           /\ Last(m_athena).stmt = "CREATE" =>
                  /\ m_pc = "returned"
                  /\ m_response.error = QueryTimedOut
                  /\ m_response.status = "FAILED"
                  /\ Len(m_results) < m_idx
    /\ (M_RunReturned /\ m_response.error = QueryTimedOut) => m_attempts = 60
    /\ (t_attempts = 60 /\ t_pc # "poll") =>
           /\ t_query.state = "RUNNING"
           /\ Last(t_submitted).stmt = "TEST" =>
                  /\ Last(all_results).status = "error"
                  /\ Last(all_results).query_id = None
           /\ Last(t_submitted).stmt = "INSERT" =>
                  /\ elementary_result.status = "error"
                  /\ elementary_result.query_id = None

\* C10's case: a CREATE that no poll of the 60 found terminal, the handler
\* returned.
C10_Witness ==
    /\ M_RunReturned
    /\ m_polls = 60
    /\ m_attempts = 60
    /\ Last(m_athena).stmt = "CREATE"
    /\ m_response.error = QueryTimedOut

\* C10's other cases: a CREATE that FAILED with a reason of the engine, and
\* a test predicate that timed out.
C10_WitnessFailed ==
    /\ M_RunReturned
    /\ m_athena # <<>>
    /\ Last(m_athena).state = "FAILED"
    /\ m_response.error.reason = "SYNTAX_ERROR"

C10_WitnessTestTimeout ==
    /\ t_attempts = 60
    /\ t_pc = "start"
    /\ Len(all_results) = 2
    /\ Last(all_results).status = "error"

(***************************************************************************)
(* Retries, overall status, the recording INSERT                           *)
(***************************************************************************)

\* C12: no statement is submitted twice within a run, and a CREATE that ends
\* FAILED or times out ends the run at once: no DROP or CREATE of a later
\* model follows it and the handler answers statusCode 500, status FAILED.
C12_NoRetryAndFailedCreateEndsTheRun ==
    /\ \A i, j \in 1..Len(m_athena) :
           (i # j) => <<m_athena[i].stmt, m_athena[i].model>>
                          # <<m_athena[j].stmt, m_athena[j].model>>
    /\ \A i, j \in 1..Len(t_submitted) :
           (i # j) => <<t_submitted[i].stmt, t_submitted[i].test>>
                          # <<t_submitted[j].stmt, t_submitted[j].test>>
    /\ \A j \in 1..Len(m_athena) :
           (m_athena[j].stmt = "CREATE" /\ m_athena[j].state # "SUCCEEDED"
                /\ m_athena[j].state # "CANCELLED") =>
               /\ j = Len(m_athena)
               /\ m_pc \in {"poll", "returned"}
               /\ m_pc = "returned" =>
                      /\ m_response.statusCode = 500
                      /\ m_response.status = "FAILED"
                      /\ Len(m_results) = m_idx - 1
               /\ m_athena[j].state = "FAILED" => m_pc = "returned"

\* C12's case: the CREATE of the first model of staging ended FAILED; the
\* handler returned with the second model never touched.
C12_Witness ==
    /\ M_RunReturned
    /\ m_layer = "staging"
    /\ Len(m_athena) = 2
    /\ m_athena[2].stmt = "CREATE"
    /\ m_athena[2].state = "FAILED"
    /\ m_response.statusCode = 500

\* C12's other case: the CREATE timed out.
C12_WitnessTimeout ==
    /\ M_RunReturned
    /\ Len(m_athena) = 2
    /\ m_athena[2].state = "RUNNING"
    /\ m_attempts = 60
    /\ m_response.error = QueryTimedOut

\* The result records with the given status.
T_Any(status) == \E i \in 1..Len(all_results) : all_results[i].status = status

\* C13: the overall status is ERROR when a test has status error, else
\* TESTS_FAILED when a test has status fail, else SUCCESS; the statusCode is
\* 200 exactly for SUCCESS and TESTS_FAILED, and 500 for ERROR and for
\* FAILED (the handler itself raised).
C13_OverallStatusAndCode ==
    t_pc = "returned" =>
        /\ t_action = "run_tests" =>
               t_response.status =
                   (IF T_Any("error") THEN "ERROR"
                    ELSE IF T_Any("fail") THEN "TESTS_FAILED"
                    ELSE "SUCCESS")
        /\ t_action # "run_tests" => t_response.status = "FAILED"
        /\ t_response.status \in {"SUCCESS", "TESTS_FAILED"} => t_response.statusCode = 200
        /\ t_response.status \in {"ERROR", "FAILED"} => t_response.statusCode = 500
        /\ t_response.status \in {"SUCCESS", "TESTS_FAILED", "ERROR", "FAILED"}

\* C13's case: a run with a failed test and a test in error, which is ERROR.
C13_Witness ==
    /\ T_RunReturned
    /\ T_Any("fail")
    /\ T_Any("error")
    /\ t_response.status = "ERROR"
    /\ t_response.statusCode = 500

\* C13's other cases: TESTS_FAILED with 200, and the handler's own failure.
C13_WitnessTestsFailed ==
    /\ T_RunReturned
    /\ t_response.status = "TESTS_FAILED"
    /\ t_response.statusCode = 200

C13_WitnessHandlerFailed ==
    /\ t_pc = "returned"
    /\ t_response.status = "FAILED"
    /\ t_response.statusCode = 500

\* The places of the INSERT among the start_query_execution calls.
T_InsertCalls == {j \in 1..Len(t_submitted) : t_submitted[j].stmt = "INSERT"}

\* C16: the INSERT is submitted only after the last test of the run has its
\* outcome; a run submits exactly one INSERT, with one row per result
\* record, and none when it produced no result record.
C16_OneInsertAfterTheLastTest ==
    /\ Cardinality(T_InsertCalls) <= 1
    /\ \A j \in T_InsertCalls :
           /\ j = Len(t_submitted)
           /\ j = Len(T_Plan) + 1
           /\ Len(all_results) = Len(T_Plan)
           /\ Len(t_submitted[j].rows) = Len(all_results)
           /\ t_submitted[j].rows = all_results
           /\ all_results # <<>>
    /\ t_pc = "returned" =>
           (IF all_results = <<>>
            THEN T_InsertCalls = {}
            ELSE Cardinality(T_InsertCalls) = 1)
    /\ (T_RunReturned /\ all_results = <<>>) => elementary_result.status = "no_results"

\* C16's case: a run of two tests that has returned, its one INSERT holding
\* two rows.
C16_Witness ==
    /\ T_RunReturned
    /\ Len(all_results) = 2
    /\ Cardinality(T_InsertCalls) = 1
    /\ Len(Last(t_submitted).rows) = 2

\* C16's other case: a run without result records, and no INSERT.
C16_WitnessNoResults ==
    /\ T_RunReturned
    /\ all_results = <<>>
    /\ t_submitted = <<>>

\* The result records with the given count of violating rows.
T_WithFailures(k) == {i \in 1..Len(all_results) : all_results[i].failures = k}

R_Blocked == r_pc \in {"poll", "sleep"}

\* C11: a blocking query-engine call eventually returns or raises, also
\* when the engine never reports a terminal state: run_query, once in its
\* loop, leaves it.
C11_RunQueryLeavesItsLoop == R_Blocked ~> ~R_Blocked

\* The table as it was when it held the first n invocations (identifiers
\* are given in the order of the INSERTs).
TableAt(n) == {row \in table : row.invocation_id <= n}

\* The invocations that own a row of greatest detected_at in tab.
OwnersOfGreatest(tab) ==
    {id \in InvocationIds(tab) :
        \E row \in RowsOf(tab, id) : \A r2 \in tab : r2.detected_at <= row.detected_at}

\* The places in r_out of the queries that select the latest invocation.
LatestSections == {i \in 1..Len(r_out) : Queries[i] \in {"latest_tests", "coverage", "test_types"}}

\* C18: the queries are not one snapshot.  Each section is computed from the
\* table as it is when its own query runs: a section that selects the latest
\* invocation shows the invocation owning the row of greatest detected_at
\* at that moment, with that invocation's rows; two such sections show
\* different invocations only when their queries saw different tables or
\* two invocations shared the greatest detected_at.
C18_SectionsFollowTheirOwnQuery ==
    /\ \A i \in 1..Len(r_out) :
           /\ r_out[i].query = Queries[i]
           /\ r_out[i].seen <= Cardinality(InvocationIds(table))
           /\ \A j \in 1..Len(r_out) : i < j => r_out[i].seen <= r_out[j].seen
    /\ \A i \in LatestSections :
           IF r_out[i].seen = 0
           THEN r_out[i].invocation_id = NoInvocation /\ r_out[i].rows = {}
           ELSE /\ r_out[i].invocation_id \in OwnersOfGreatest(TableAt(r_out[i].seen))
                /\ r_out[i].rows =
                       {[n |-> row.n, status |-> row.status] :
                           row \in RowsOf(table, r_out[i].invocation_id)}
    /\ \A i, j \in LatestSections :
           (r_out[i].invocation_id # r_out[j].invocation_id) =>
               \/ r_out[i].seen # r_out[j].seen
               \/ Cardinality(OwnersOfGreatest(TableAt(r_out[i].seen))) > 1

\* C18's case: the report is rendered; an invocation was recorded between
\* the latest_tests query and the coverage query, no two invocations share
\* a detected_at, and the two sections show different invocations.
C18_Witness ==
    /\ r_pc = "done"
    /\ r_out[2].seen = 1
    /\ r_out[4].seen = 2
    /\ r_out[2].invocation_id = 1
    /\ r_out[4].invocation_id = 2
    /\ \A r1, r2 \in table :
           r1.invocation_id # r2.invocation_id => r1.detected_at # r2.detected_at

\* C18's other case: the banner's invocation is not the one of the
\* test-type breakdown, an invocation having been recorded after the first
\* query.
C18_WitnessBanner ==
    /\ r_pc = "done"
    /\ r_out[1].seen = 1
    /\ r_out[5].seen = 2
    /\ r_stats.latest = 1
    /\ r_out[5].invocation_id = 2
    /\ \A r1, r2 \in table :
           r1.invocation_id # r2.invocation_id => r1.detected_at # r2.detected_at

\* The row the statistics are read from.
R_Latest == r_out[1].rows[1]

\* C19: the pass rate is passed / total of the latest invocation as a
\* percentage (in whole percent, as the banner shows it), 0 when total is 0;
\* for total 10 and passed 7 it is 70.
C19_PassRate ==
    r_pc = "done" =>
        IF r_out[1].rows = <<>>
        THEN r_stats.total_tests = 0 /\ r_stats.pass_rate = 0
        ELSE /\ r_stats.total_tests = R_Latest.tests
             /\ r_stats.passed = R_Latest.passed
             /\ r_stats.total_tests > 0
             /\ 2 * r_stats.pass_rate * R_Latest.tests
                    <= 200 * R_Latest.passed + R_Latest.tests
             /\ 2 * r_stats.pass_rate * R_Latest.tests
                    >= 200 * R_Latest.passed - R_Latest.tests
             /\ (R_Latest.tests = 10 /\ R_Latest.passed = 7) => r_stats.pass_rate = 70

\* C19's case: 7 of 10 tests passed and the statistics say 70.
C19_Witness ==
    /\ r_pc = "done"
    /\ r_out[1].rows # <<>>
    /\ r_stats.total_tests = 10
    /\ r_stats.passed = 7
    /\ r_stats.pass_rate = 70

\* C19's other case: no invocation, total 0 and a pass rate of 0.
C19_WitnessNoTests ==
    /\ r_pc = "done"
    /\ r_out[1].rows = <<>>
    /\ r_stats.total_tests = 0
    /\ r_stats.pass_rate = 0

(***************************************************************************)
(* Properties of concurrent invocations                                    *)
(***************************************************************************)

\* C15: a run has one invocation identifier, drawn when run_tests starts;
\* every result record of the run and every row of its INSERT carries that
\* identifier, and two runs never have the same identifier, whatever their
\* layers and however their steps interleave.
C15_OneInvocationIdPerRun ==
    /\ \A run \in Runs :
           /\ \A i \in 1..Len(u_results[run]) :
                  u_results[run][i].invocation_id = u_invocation_id[run]
           /\ \A i \in 1..Len(u_insert[run]) :
                  /\ u_insert[run][i].invocation_id = u_invocation_id[run]
                  /\ u_insert[run][i].test = u_results[run][i].test
           /\ u_pc[run] = "returned" => Len(u_insert[run]) = Len(u_results[run])
           /\ u_pc[run] # "idle" => u_invocation_id[run] >= 1
    /\ \A r1, r2 \in Runs :
           (r1 # r2 /\ u_pc[r1] # "idle" /\ u_pc[r2] # "idle") =>
               u_invocation_id[r1] # u_invocation_id[r2]

\* C15's case: two runs of the same layer that overlapped (each drew its
\* identifier before the other built its INSERT) have returned, each with
\* its rows.
C15_Witness ==
    /\ u_pc[1] = "returned" /\ u_pc[2] = "returned"
    /\ u_layer[1] = "staging" /\ u_layer[2] = "staging"
    /\ u_insert[1] # <<>> /\ u_insert[2] # <<>>
    /\ u_insert[1][1].id > u_invocation_id[2]
    /\ u_insert[2][1].id > u_invocation_id[1]
    /\ u_invocation_id[1] # u_invocation_id[2]

\* The invocation runs alone: no other has been started.
C_Alone(run) == \A other \in Runs : other # run => c_pc[other] = "idle"

\* What the invocation's CREATE reads is in the catalog.
C_SourcesThere(run) ==
    \A i \in 1..Len(MODELS[c_layer[run]]) :
        \A s \in Sources(MODELS[c_layer[run]][i]) : catalog[s] # Absent

\* C17: concurrent run_layer invocations are not mutually excluded and race
\* on drop/create.  An invocation's CREATE never finds the object it has
\* just dropped unless another invocation created it in between (that is
\* the only way it fails for an existing object), and an invocation that
\* runs alone, on a catalog that holds what its models read, succeeds with
\* every model created.
C17_CreateMeetsOnlyTheOtherRunsObject ==
    \A run \in Runs :
        /\ (c_pc[run] \in {"poll", "returned"} /\ C_Statement(run) = "CREATE"
                /\ c_query[run].state = "FAILED" /\ c_query[run].kind = "already exists") =>
               /\ c_query[run].created_by \in Runs
               /\ c_query[run].created_by # run
               /\ c_pc[c_query[run].created_by] # "idle"
               /\ c_layer[c_query[run].created_by] = c_layer[run]
        /\ (c_pc[run] \in {"poll", "returned"} /\ C_Statement(run) = "CREATE"
                /\ c_query[run].state # "NONE" /\ c_query[run].found # Absent) =>
               /\ c_query[run].found \in Runs
               /\ c_query[run].found # run
        /\ (c_pc[run] = "returned" /\ C_Alone(run) /\ C_SourcesThere(run)) =>
               /\ c_response[run] = "SUCCESS"
               /\ Len(c_results[run]) = Len(MODELS[c_layer[run]])
               /\ \A i \in 1..Len(c_results[run]) : c_results[run][i].state = "SUCCEEDED"

\* C17's case: two invocations for staging; invocation 1 submitted its
\* CREATE of the first model when invocation 2 had created that model after
\* invocation 1's DROP, the CREATE failed and invocation 1 returned FAILED.
C17_Witness ==
    /\ c_layer[1] = "staging" /\ c_layer[2] = "staging"
    /\ c_pc[1] = "returned"
    /\ c_response[1] = "FAILED"
    /\ c_idx[1] = 1
    /\ c_query[1].found = 2
    /\ c_query[1].kind = "already exists"
    /\ c_query[1].created_by = 2

\* C17's other case: both invocations of the same layer succeeded (their
\* statements did not interleave).
C17_WitnessBothSucceed ==
    /\ c_layer[1] = "marts" /\ c_layer[2] = "marts"
    /\ c_response[1] = "SUCCESS" /\ c_response[2] = "SUCCESS"

(***************************************************************************)
(* Properties of the DAG                                                   *)
(***************************************************************************)

\* The order of the pipeline.
PipelineOrder ==
    <<"start_pipeline", "wait_for_ingestion", "dbt_deps", "dbt_run_staging",
      "dbt_run_intermediate", "dbt_run_marts", "dbt_test">>

\* The task instance has been started.
D_Started(task) == d_state[task] \in {"running", "up_for_retry", "success", "failed"}

\* C20: the DAG is one chain (start the ingestion workflow, wait for it, dbt
\* deps, staging, intermediate, marts, tests) and no task is started before
\* its predecessor succeeded: the tests do not run before the marts models
\* are built, no transformation runs before the ingestion wait completed.
C20_SingleChainInOrder ==
    /\ \A i \in 1..Len(PipelineOrder) :
           Upstream(PipelineOrder[i]) = IF i = 1 THEN {} ELSE {PipelineOrder[i - 1]}
    /\ \A i, j \in 1..Len(PipelineOrder) :
           (i < j /\ D_Started(PipelineOrder[j])) => d_state[PipelineOrder[i]] = "success"
    /\ D_Started("dbt_test") => d_state["dbt_run_marts"] = "success"
    /\ \A task \in {"dbt_run_staging", "dbt_run_intermediate", "dbt_run_marts"} :
           D_Started(task) => d_state["wait_for_ingestion"] = "success"

\* C20's case: the tests are running, every task before them has succeeded,
\* the marts task at its second try.
C20_Witness ==
    /\ d_state["dbt_test"] = "running"
    /\ d_state["dbt_run_marts"] = "success"
    /\ d_tries["dbt_run_marts"] = 2
    /\ d_state["wait_for_ingestion"] = "success"

\* C20's other case: the marts task failed for good and the tests are not
\* run.
C20_WitnessNotRun ==
    /\ d_state["dbt_run_marts"] = "failed"
    /\ d_state["dbt_test"] = "upstream_failed"

(***************************************************************************)
(* C21: the dataset generators.                                            *)
(***************************************************************************)

\* the identifier pattern of a script: "usr-", its batch id if it has one,
\* then decimal digits, three or more
MatchesBatchPrefix(script, id) ==
    LET prefix == <<"usr-">> \o BATCH_ID(script)
    IN  /\ Len(id) >= Len(prefix) + 3
        /\ SubSeq(id, 1, Len(prefix)) = prefix
        /\ \A k \in (Len(prefix) + 1)..Len(id) : \E d \in DOMAIN DigitChars : id[k] = DigitChars[d]

G_UsersReturned == g_pc # "idle"

\* what the claim says of generate_users
G_UsersAsClaimed ==
    /\ Len(g_users) = g_num_users
    /\ \A i, j \in DOMAIN g_users : i # j => g_users[i].user_id # g_users[j].user_id
    /\ \A i \in DOMAIN g_users : MatchesBatchPrefix(g_script, g_users[i].user_id)

\* what the claim says of the records generate_events has built
G_EventsAsClaimed ==
    /\ \A e \in DOMAIN g_events :
          /\ \E u \in DOMAIN g_users : g_events[e].user_id = g_users[u].user_id
          /\ ("amount" \in DOMAIN g_events[e]) <=> (g_events[e].event_type = "purchase")
    /\ g_pc = "returned" => Len(g_events) = g_num_events

FirstPageDataRows(k) == Min(k, MaxResults - 1)

\* C22: for a predicate that SUCCEEDED with k violating rows the recorded
\* failure count is min(k, 9), the data rows of the first page, and the
\* status is pass for k = 0 and fail for every k >= 1.
C22_FailuresAreFirstPageRows ==
    (T_TestJustDone /\ t_query.state = "SUCCEEDED") =>
        LET r == Last(all_results) IN
        /\ r.failures = FirstPageDataRows(t_query.rows)
        /\ r.status = (IF t_query.rows = 0 THEN "pass" ELSE "fail")

\* The same for the predicates whose result page was fetched.
C22_FetchedFailuresAreFirstPageRows ==
    (T_TestJustDone /\ t_query.state = "SUCCEEDED" /\ t_query.fetched) =>
        LET r == Last(all_results) IN
        /\ r.failures = FirstPageDataRows(t_query.rows)
        /\ r.status = (IF t_query.rows = 0 THEN "pass" ELSE "fail")

\* a predicate with ten violating rows was fetched and recorded with nine
C22_WitnessCapped ==
    /\ T_TestJustDone /\ t_query.state = "SUCCEEDED" /\ t_query.fetched
    /\ t_query.rows = 10
    /\ Last(all_results).failures = 9
    /\ Last(all_results).status = "fail"

\* C23: a test is recorded with status pass only if its predicate SUCCEEDED,
\* its result page was fetched and the page held no data row.
C23_PassOnlyForFetchedEmptyPage ==
    (T_TestJustDone /\ Last(all_results).status = "pass") =>
        /\ t_query.state = "SUCCEEDED"
        /\ t_query.fetched
        /\ FirstPage(t_query.rows) - 1 = 0

\* The part of C23 the code keeps: pass is recorded for SUCCEEDED predicates
\* only, and with a fetched page only for an empty one.
C23_PassOnlyForSucceeded ==
    (T_TestJustDone /\ Last(all_results).status = "pass") =>
        /\ t_query.state = "SUCCEEDED"
        /\ t_query.fetched => t_query.rows = 0

(***************************************************************************)
(* C27: statuses, failure counts and the summary.                          *)
(***************************************************************************)

\* the status of a record and its failure count agree
T_StatusAgrees(r) ==
    /\ r.status \in {"pass", "fail", "error"}
    /\ r.status \in {"pass", "error"} => r.failures = 0
    /\ r.status = "fail" => r.failures >= 1

\* C27: every result record, and every row of the INSERT, has status pass,
\* fail or error with failures = 0 for pass and error and failures >= 1 for
\* fail; and the summary of a run has passed + failed + errors = total = the
\* number of result records.
C27_StatusAgreesWithFailures ==
    /\ \A i \in 1..Len(all_results) : T_StatusAgrees(all_results[i])
    /\ \A j \in T_InsertCalls :
           \A i \in 1..Len(t_submitted[j].rows) : T_StatusAgrees(t_submitted[j].rows[i])
    /\ (T_RunReturned /\ t_response.status # "FAILED") =>
           LET summary == t_response.summary IN
           /\ summary.passed + summary.failed + summary.errors = summary.total
           /\ summary.total = Len(all_results)

\* a run returned after inserting a fail with its violating rows and an error
C27_Witness ==
    /\ T_RunReturned /\ t_response.status # "FAILED"
    /\ T_InsertCalls # {}
    /\ \E i \in 1..Len(all_results) : all_results[i].status = "fail" /\ all_results[i].failures >= 1
    /\ \E i \in 1..Len(all_results) : all_results[i].status = "error"
    /\ t_response.summary.total = 2

(***************************************************************************)
(* C24: what a successful run_layer leaves in the catalog.                 *)
(***************************************************************************)

\* the invocation returned SUCCESS with every execution record SUCCEEDED
C_ReturnedAllSucceeded(run) ==
    /\ c_pc[run] = "returned"
    /\ c_response[run] = "SUCCESS"
    /\ Len(c_results[run]) = Len(MODELS[c_layer[run]])
    /\ \A i \in 1..Len(c_results[run]) : c_results[run][i].state = "SUCCEEDED"

C_ModelsExist(run) ==
    \A i \in 1..Len(MODELS[c_layer[run]]) : catalog[MODELS[c_layer[run]][i]] # Absent

\* C24: once a run_layer invocation that ran alone has returned with every
\* execution record SUCCEEDED, every model of its layer is in the catalog,
\* also when one of its DROPs timed out and stayed with the engine.
C24_SucceededRunLeavesItsModels ==
    C_ReturnedAllSucceeded(Alone) => C_ModelsExist(Alone)

\* The same for the invocations none of whose queries timed out.
C24_WithoutTimeoutLeavesItsModels ==
    (C_ReturnedAllSucceeded(Alone) /\ c_abandoned = {}) => C_ModelsExist(Alone)

\* a run without timeout returned SUCCESS for marts
C24_WitnessWithoutTimeout ==
    /\ C_ReturnedAllSucceeded(Alone) /\ c_abandoned = {}
    /\ c_layer[Alone] = "marts"

(***************************************************************************)
(* C25, C26: the banner and the sections of one report.                    *)
(***************************************************************************)

\* the sections that select the latest invocation show the banner's
R_SectionsShowBanners == \A i \in LatestSections : r_out[i].invocation_id = r_stats.latest

\* no two invocations of the table share a detected_at
R_NoSharedTime ==
    \A r1, r2 \in table : r1.invocation_id # r2.invocation_id => r1.detected_at # r2.detected_at

\* of two invocations of the table, one ended before the other began
R_RunsApart ==
    \A a, b \in InvocationIds(table) :
        a # b => \/ \A r1 \in RowsOf(table, a), r2 \in RowsOf(table, b) : r1.detected_at < r2.detected_at
                 \/ \A r1 \in RowsOf(table, a), r2 \in RowsOf(table, b) : r2.detected_at < r1.detected_at

\* C25: when nothing is inserted while generate_report runs, the invocation
\* of the banner and the summary statistics is the invocation of the
\* latest-results, coverage and test-type sections, also when the stored
\* runs overlapped in time.
C25_OneInvocationInAllSections ==
    r_pc = "done" => R_SectionsShowBanners

\* The same for stored runs that overlapped without sharing a timestamp.
C25_OneInvocationWithoutSharedTime ==
    (r_pc = "done" /\ R_NoSharedTime) => R_SectionsShowBanners

\* The same for stored runs that did not overlap.
C25_OneInvocationForRunsApart ==
    (r_pc = "done" /\ R_RunsApart) => R_SectionsShowBanners

\* two runs apart were stored and the report shows the later one throughout
C25_WitnessRunsApart ==
    /\ r_pc = "done" /\ R_RunsApart
    /\ Cardinality(InvocationIds(table)) = 2
    /\ r_stats.latest # NoInvocation
    /\ R_SectionsShowBanners

\* the page is rendered and its banner says that all tests pass
R_BannerAllPassing == r_pc = "done" /\ r_stats.banner.text = "All Tests Passing"

\* C26: the banner shows 'All Tests Passing' only when every test of the
\* latest invocation (the one the banner summarises) has status pass; an
\* invocation with errors and no fail is not shown as all passing.
C26_AllPassingOnlyWhenAllPass ==
    R_BannerAllPassing =>
        \A row \in RowsOf(table, r_stats.latest) : row.status = "pass"

\* What the banner does tell: no test of that invocation has status fail.
C26_AllPassingOnlyWithoutFail ==
    R_BannerAllPassing =>
        \A row \in RowsOf(table, r_stats.latest) : row.status # "fail"

\* the banner counts the failed tests of an invocation that has some
C26_WitnessFailing ==
    /\ r_pc = "done"
    /\ r_stats.banner = [text |-> "Tests Failing", failed |-> 2]
    /\ Cardinality(RowsOf(table, r_stats.latest)) = 2

====
